---- MODULE Spec2Model ----
(***************************************************************************)
(* Customer/feeder/phase correlation engine and phase-imbalance            *)
(* analyzer/optimizer of the Solar_development backend.                    *)
(*                                                                         *)
(* Numbers.  Loads are integer kW; a ratio the code computes in floating   *)
(* point (imbalance, averages of imbalances) is kept as an exact rational  *)
(* [n, d] with d > 0 in lowest terms, so that equality and order are those *)
(* of the mathematical values.                                             *)
(***************************************************************************)
EXTENDS Integers, Sequences, FiniteSets, TLC

VARIABLES
    customer_data,          \* session['customer_data']: customer id -> data frame shape
    feeder_data,            \* session['feeder_data']: the feeder refs and their rows
    analysis_results,       \* session['analysis_results']['assignments'], a list
    analysis_metadata,      \* session['analysis_results']['analysis_metadata']
    balance_analysis,       \* session['balance_analysis'], when stored
    balancing_suggestions,  \* session['balancing_suggestions'], when stored
    simulation,             \* the simulation result of the last simulate response
    request,                \* the request the last handler served: [op, moves]
    call,                   \* a direct call of one method: its name and arguments
    returned                \* what that call returned, once it has

vars == <<customer_data, feeder_data, analysis_results, analysis_metadata,
          balance_analysis, balancing_suggestions, simulation, request,
          call, returned>>

-----------------------------------------------------------------------------
(* Bounds of the model *)

MaxCustomers == 2
MaxPhaseLoad == 40

\* The longest voltage series, in samples.
MaxSeriesLen == 11

\* The largest start of a customer series, in minutes after the feeder's.
MaxOffset == 20

\* The most customers listed on the phase the optimizer's inputs vary.
MaxListed == 7
ImbalanceSteps == 10

(* Program constants *)

\* (one aligned pair fewer accepted)
MinAlignedPointsLow == 10 - 1

\* the minimum of aligned pairs of a match
MinAlignedPoints == 10
TimeWindowMinutes == 15
NominalVoltage == 230
DefaultLoadKw == 5
DefaultReactiveKvar == 1

\* (the loop left one move late)
MaxMovesPerFeederLate == 5 + 1

\* if len(moves) >= 5: break
MaxMovesPerFeeder == 5
TopSuggestions == 5

\* max_imbalance_threshold = 0.15, as the rational 15/100
ThresholdNum == 15
ThresholdDen == 100

-----------------------------------------------------------------------------
(* Exact rationals *)

Abs(x) == IF x < 0 THEN -x ELSE x

Max2(a, b) == IF a >= b THEN a ELSE b

RECURSIVE GCD(_, _)
GCD(a, b) == IF b = 0 THEN a ELSE GCD(b, a % b)

Rat(n, d) ==
    LET s == IF d < 0 THEN -1 ELSE 1
        g == GCD(Abs(n), Abs(d))
    IN  [n |-> (s * n) \div g, d |-> (s * d) \div g]

RZero == [n |-> 0, d |-> 1]
RAdd(a, b) == Rat(a.n * b.d + b.n * a.d, a.d * b.d)
RSub(a, b) == Rat(a.n * b.d - b.n * a.d, a.d * b.d)
RDivInt(a, k) == Rat(a.n, a.d * k)
RLess(a, b) == a.n * b.d < b.n * a.d
RLeq(a, b) == a.n * b.d <= b.n * a.d
RMul(a, b) == Rat(a.n * b.n, a.d * b.d)
RDiv(a, b) == Rat(a.n * b.d, a.d * b.n)
RMax(a, b) == IF RLess(a, b) THEN b ELSE a
ROne == [n |-> 1, d |-> 1]

Threshold == Rat(ThresholdNum, ThresholdDen)

-----------------------------------------------------------------------------
(* Data shapes *)

PhaseNames == <<"Phase A", "Phase B", "Phase C">>
PhaseSet == {PhaseNames[i] : i \in 1..Len(PhaseNames)}

\* f"Phase {chr(65 + i)}": the label of the i-th voltage column of an upload,
\* for the first four columns.
PhaseLabels == <<"Phase A", "Phase B", "Phase C", "Phase D">>

\* A customer's data frame as the balancer reads it: rows = 0 stands for a
\* missing or empty frame; has_kw for a column whose name contains 'KW';
\* kw_nan for a column with no numeric value (its mean is NaN); kw is the
\* mean of the column otherwise.  The same for the reactive column.
Frame(rows, has_kw, kw_nan, kw, has_kvar, kvar_nan, kvar) ==
    [rows |-> rows, has_kw |-> has_kw, kw_nan |-> kw_nan, kw |-> kw,
     has_kvar |-> has_kvar, kvar_nan |-> kvar_nan, kvar |-> kvar]

NoFrame == Frame(0, FALSE, FALSE, 0, FALSE, FALSE, 0)

Absent == [present |-> FALSE]

NoCall == [fn |-> "none"]

Range(seq) == {seq[i] : i \in 1..Len(seq)}


-----------------------------------------------------------------------------
(* LoadBalancer *)

EmptyPhases == [p \in PhaseSet |-> <<>>]

\* (a customer that is already listed on the phase is not listed again)
AppendCustomerOnce(fs, feeder_id, phase, customer_id) ==
    [fs EXCEPT !.phases[feeder_id][phase] =
        IF \E k \in 1..Len(@) : @[k] = customer_id THEN @ ELSE Append(@, customer_id)]

\* feeder_structure[feeder_id][phase].append({'customer_id': ...})
AppendCustomer(fs, feeder_id, phase, customer_id) ==
    [fs EXCEPT !.phases[feeder_id][phase] = Append(@, customer_id)]

RECURSIVE AppendPhaseAssignments(_, _, _, _, _)
AppendPhaseAssignments(fs, feeder_id, customer_id, phase_assignments, k) ==
    IF k > Len(phase_assignments) THEN fs
    ELSE AppendPhaseAssignments(
            AppendCustomer(fs, feeder_id,
                           phase_assignments[k].assigned_feeder_phase, customer_id),
            feeder_id, customer_id, phase_assignments, k + 1)

\* One iteration of the loop over assignments.  An assignment without the key
\* 'phase_assignments' is modelled by an empty list (the resolver never returns
\* an empty list, and both readers treat the two alike).
OrganizeOne(fs, assignment) ==
    LET feeder_id == assignment.assigned_feeder
        fs1 == IF feeder_id \in DOMAIN fs.phases THEN fs
               ELSE [order |-> Append(fs.order, feeder_id),
                     phases |-> fs.phases @@ (feeder_id :> EmptyPhases)]
    IN  IF Len(assignment.phase_assignments) > 0
        THEN AppendPhaseAssignments(fs1, feeder_id, assignment.customer_id,
                                    assignment.phase_assignments, 1)
        ELSE AppendCustomer(fs1, feeder_id, "Phase A", assignment.customer_id)

RECURSIVE OrganizeFrom(_, _, _)
OrganizeFrom(assignments, i, fs) ==
    IF i > Len(assignments) THEN fs
    ELSE OrganizeFrom(assignments, i + 1, OrganizeOne(fs, assignments[i]))

\* feeder_structure: the feeders in insertion order and, per feeder, the
\* customer ids listed on each phase in insertion order.
organize_by_feeder_and_phase(assignments, cdata) ==
    OrganizeFrom(assignments, 1, [order |-> <<>>, phases |-> <<>>])

\* feeder_structure[feeder_id][assigned_phase] raises KeyError for a label that
\* is not one of the three keys of the feeder's dict.
organize_raises(assignments) ==
    \E i \in 1..Len(assignments) :
        \E k \in 1..Len(assignments[i].phase_assignments) :
            assignments[i].phase_assignments[k].assigned_feeder_phase \notin PhaseSet

\* customer_data.get(customer_id)
GetFrame(cdata, customer_id) ==
    IF customer_id \in DOMAIN cdata THEN cdata[customer_id] ELSE NoFrame

\* What the aggregation loop adds to total_kw for one listed customer.
AggregatedKw(df) ==
    IF df.rows > 0
    THEN IF df.has_kw THEN (IF df.kw_nan THEN 0 ELSE df.kw)
         ELSE DefaultLoadKw
    ELSE DefaultLoadKw

\* What the aggregation loop adds to total_kvar for one listed customer.
AggregatedKvar(df) ==
    IF df.rows > 0
    THEN IF df.has_kvar THEN (IF df.kvar_nan THEN 0 ELSE df.kvar)
         ELSE DefaultReactiveKvar
    ELSE DefaultReactiveKvar

RECURSIVE SumKw(_, _, _)
SumKw(customers, cdata, k) ==
    IF k > Len(customers) THEN 0
    ELSE AggregatedKw(GetFrame(cdata, customers[k])) + SumKw(customers, cdata, k + 1)

RECURSIVE SumKvar(_, _, _)
SumKvar(customers, cdata, k) ==
    IF k > Len(customers) THEN 0
    ELSE AggregatedKvar(GetFrame(cdata, customers[k])) + SumKvar(customers, cdata, k + 1)

\* One PhaseLoad per phase of the feeder, in the order Phase A, B, C.
calculate_phase_loads(phases, cdata) ==
    [i \in 1..Len(PhaseNames) |->
        LET customers == phases[PhaseNames[i]]
        IN  [phase_name |-> PhaseNames[i],
             total_load_kw |-> SumKw(customers, cdata, 1),
             total_reactive_kvar |-> SumKvar(customers, cdata, 1),
             customer_count |-> Len(customers),
             customers |-> customers]]

RECURSIVE SumLoads(_, _)
SumLoads(phase_loads, k) ==
    IF k > Len(phase_loads) THEN 0
    ELSE phase_loads[k].total_load_kw + SumLoads(phase_loads, k + 1)

RECURSIVE MaxDeviation(_, _, _)
\* max |n * load - sum| over the phases, n the number of phases: n times the
\* largest deviation from the mean.
MaxDeviation(phase_loads, total, k) ==
    IF k > Len(phase_loads) THEN 0
    ELSE Max2(Abs(Len(phase_loads) * phase_loads[k].total_load_kw - total),
              MaxDeviation(phase_loads, total, k + 1))

RECURSIVE MaxSignedDeviation(_, _, _)
MaxSignedDeviation(phase_loads, total, k) ==
    IF k = Len(phase_loads) THEN Len(phase_loads) * phase_loads[k].total_load_kw - total
    ELSE Max2(Len(phase_loads) * phase_loads[k].total_load_kw - total,
              MaxSignedDeviation(phase_loads, total, k + 1))

\* (the deviations taken without abs)
calculate_imbalance_signed(phase_loads) ==
    IF Len(phase_loads) = 0 THEN RZero
    ELSE LET total == SumLoads(phase_loads, 1)
         IN  IF total = 0 THEN RZero
             ELSE Rat(MaxSignedDeviation(phase_loads, total, 1), total)

\* max_deviation / avg_load, 0 for no phases or a zero mean.
calculate_imbalance(phase_loads) ==
    IF Len(phase_loads) = 0 THEN RZero
    ELSE LET total == SumLoads(phase_loads, 1)
         IN  IF total = 0 THEN RZero
             ELSE Rat(MaxDeviation(phase_loads, total, 1), total)

\* sorted(phase_loads, key=total_load_kw, reverse=True)[0]: the stable sort keeps
\* the first phase among those of maximal load in front.
RECURSIVE MostLoadedFrom(_, _, _)
MostLoadedFrom(phase_loads, k, best) ==
    IF k > Len(phase_loads) THEN best
    ELSE MostLoadedFrom(phase_loads, k + 1,
            IF phase_loads[k].total_load_kw > phase_loads[best].total_load_kw
            THEN k ELSE best)

\* sorted(...)[-1]: the last phase among those of minimal load.
RECURSIVE LeastLoadedFrom(_, _, _)
LeastLoadedFrom(phase_loads, k, best) ==
    IF k > Len(phase_loads) THEN best
    ELSE LeastLoadedFrom(phase_loads, k + 1,
            IF phase_loads[k].total_load_kw <= phase_loads[best].total_load_kw
            THEN k ELSE best)

MostLoaded(phase_loads) == phase_loads[MostLoadedFrom(phase_loads, 1, 1)]
LeastLoaded(phase_loads) == phase_loads[LeastLoadedFrom(phase_loads, 1, 1)]

\* customer_load in the optimizer: 5.0 unless the frame has a numeric mean.
CustomerLoad(df) ==
    IF df.rows > 0 /\ df.has_kw /\ ~df.kw_nan THEN df.kw ELSE DefaultLoadKw

\* (a move that leaves the gap as wide as it was is taken too)
NarrowsGapOrKeeps(most_kw, least_kw, customer_load) ==
    Abs((most_kw - customer_load) - (least_kw + customer_load)) <= Abs(most_kw - least_kw)

\* abs(new_most_loaded - new_least_loaded) < abs(most_loaded - least_loaded)
NarrowsGap(most_kw, least_kw, customer_load) ==
    Abs((most_kw - customer_load) - (least_kw + customer_load)) < Abs(most_kw - least_kw)

RECURSIVE CollectMoves(_, _, _, _, _, _)
\* The loop over most_loaded.customers, stopped once five moves are collected.
CollectMoves(feeder_id, most, least, cdata, k, moves) ==
    IF k > Len(most.customers) \/ Len(moves) >= MaxMovesPerFeeder THEN moves
    ELSE LET customer_id == most.customers[k]
             customer_load == CustomerLoad(GetFrame(cdata, customer_id))
         IN  CollectMoves(feeder_id, most, least, cdata, k + 1,
                IF NarrowsGap(most.total_load_kw, least.total_load_kw, customer_load)
                THEN Append(moves, [customer_id |-> customer_id,
                                    feeder_id |-> feeder_id,
                                    from_phase |-> most.phase_name,
                                    to_phase |-> least.phase_name,
                                    customer_load_kw |-> customer_load])
                ELSE moves)

find_optimal_moves(feeder_id, phase_loads, cdata) ==
    IF Len(phase_loads) < 2 THEN <<>>
    ELSE LET most == MostLoaded(phase_loads)
             least == LeastLoaded(phase_loads)
         IN  \* most - least < most * 0.1
             IF 10 * (most.total_load_kw - least.total_load_kw) < most.total_load_kw
             THEN <<>>
             ELSE CollectMoves(feeder_id, most, least, cdata, 1, <<>>)

\* next(pl.total_load_kw for pl in phase_loads if pl.phase_name == name, 0)
RECURSIVE PhaseLoadOf(_, _, _)
PhaseLoadOf(phase_loads, name, k) ==
    IF k > Len(phase_loads) THEN 0
    ELSE IF phase_loads[k].phase_name = name THEN phase_loads[k].total_load_kw
    ELSE PhaseLoadOf(phase_loads, name, k + 1)

calculate_improvement(move, feeder_structure, cdata) ==
    LET phase_loads_before ==
            calculate_phase_loads(feeder_structure.phases[move.feeder_id], cdata)
        imbalance_before == calculate_imbalance(phase_loads_before)
        n == Len(phase_loads_before)
        total == SumLoads(phase_loads_before, 1)
        new_from == PhaseLoadOf(phase_loads_before, move.from_phase, 1)
                        - move.customer_load_kw
        new_to == PhaseLoadOf(phase_loads_before, move.to_phase, 1)
                        + move.customer_load_kw
        imbalance_after ==
            IF total > 0
            THEN Rat(Max2(Abs(n * new_from - total), Abs(n * new_to - total)), total)
            ELSE imbalance_before
    IN  [imbalance_before |-> imbalance_before,
         imbalance_after |-> imbalance_after,
         imbalance_reduction |-> RSub(imbalance_before, imbalance_after)]

\* The first loop of suggest_balancing_moves: the moves of every feeder whose
\* imbalance exceeds the threshold, feeder by feeder in insertion order.
RECURSIVE SuggestFrom(_, _, _)
SuggestFrom(feeder_structure, cdata, f) ==
    IF f > Len(feeder_structure.order) THEN <<>>
    ELSE LET feeder_id == feeder_structure.order[f]
             phase_loads == calculate_phase_loads(feeder_structure.phases[feeder_id], cdata)
             imbalance == calculate_imbalance(phase_loads)
         IN  (IF RLess(Threshold, imbalance)
              THEN find_optimal_moves(feeder_id, phase_loads, cdata)
              ELSE <<>>)
             \o SuggestFrom(feeder_structure, cdata, f + 1)

\* The place of x in a list already sorted by imbalance_reduction, highest
\* first: behind every element that reduces at least as much (a stable sort).
RECURSIVE InsertByReduction(_, _)
InsertByReduction(sorted, x) ==
    IF Len(sorted) = 0 THEN <<x>>
    ELSE IF RLess(sorted[1].expected_improvement.imbalance_reduction,
                  x.expected_improvement.imbalance_reduction)
         THEN <<x>> \o sorted
         ELSE <<sorted[1]>> \o InsertByReduction(Tail(sorted), x)

RECURSIVE SortByReduction(_, _, _)
SortByReduction(suggestions, k, sorted) ==
    IF k > Len(suggestions) THEN sorted
    ELSE SortByReduction(suggestions, k + 1, InsertByReduction(sorted, suggestions[k]))

RECURSIVE BalancedTenths(_, _, _, _)
\* balanced_count of _estimate_balanced_feeders, in tenths.
BalancedTenths(suggestions, feeder_structure, cdata, f) ==
    IF f > Len(feeder_structure.order) THEN 0
    ELSE LET feeder_id == feeder_structure.order[f]
             imbalance == calculate_imbalance(
                 calculate_phase_loads(feeder_structure.phases[feeder_id], cdata))
         IN  (IF RLeq(imbalance, Threshold) THEN 10
              ELSE IF \E k \in 1..Len(suggestions) : suggestions[k].feeder_id = feeder_id
                   THEN 7 ELSE 0)
             + BalancedTenths(suggestions, feeder_structure, cdata, f + 1)

estimate_balanced_feeders(suggestions, feeder_structure, cdata) ==
    BalancedTenths(suggestions, feeder_structure, cdata, 1) \div 10

suggest_balancing_moves(cdata, assignments) ==
    LET feeder_structure == organize_by_feeder_and_phase(assignments, cdata)
        moves == SuggestFrom(feeder_structure, cdata, 1)
        improved == [k \in 1..Len(moves) |->
                        [customer_id |-> moves[k].customer_id,
                         feeder_id |-> moves[k].feeder_id,
                         from_phase |-> moves[k].from_phase,
                         to_phase |-> moves[k].to_phase,
                         customer_load_kw |-> moves[k].customer_load_kw,
                         expected_improvement |->
                             calculate_improvement(moves[k], feeder_structure, cdata)]]
        suggestions == SortByReduction(improved, 1, <<>>)
    IN  [suggestions |-> suggestions,
         total_suggestions |-> Len(suggestions),
         estimated_balanced_feeders |->
             estimate_balanced_feeders(suggestions, feeder_structure, cdata)]

\* (the bound taken exclusive)
IsBalancedStrict(ratio) == RLess(ratio, Threshold)

\* imbalance <= self.max_imbalance_threshold
IsBalanced(ratio) == RLeq(ratio, Threshold)

\* imbalance > self.max_imbalance_threshold
ExceedsThreshold(ratio) == RLess(Threshold, ratio)

\* The loop of analyze_current_balance over the feeders; the result keeps the
\* imbalance itself next to the two lists of overall_stats.
RECURSIVE AnalyzeFrom(_, _, _, _)
AnalyzeFrom(feeder_structure, cdata, f, acc) ==
    IF f > Len(feeder_structure.order) THEN acc
    ELSE LET feeder_id == feeder_structure.order[f]
             phase_loads == calculate_phase_loads(feeder_structure.phases[feeder_id], cdata)
             imbalance == calculate_imbalance(phase_loads)
             entry == [phase_loads |-> phase_loads,
                       imbalance |-> imbalance,
                       is_balanced |-> IsBalanced(imbalance),
                       total_load_kw |-> SumLoads(phase_loads, 1),
                       total_customers |->
                           phase_loads[1].customer_count + phase_loads[2].customer_count
                               + phase_loads[3].customer_count]
         IN  AnalyzeFrom(feeder_structure, cdata, f + 1,
                [feeder_analysis |-> acc.feeder_analysis @@ (feeder_id :> entry),
                 imbalanced_feeders |->
                     IF ExceedsThreshold(imbalance)
                     THEN Append(acc.imbalanced_feeders, feeder_id)
                     ELSE acc.imbalanced_feeders,
                 balanced_feeders |->
                     IF ExceedsThreshold(imbalance)
                     THEN acc.balanced_feeders
                     ELSE Append(acc.balanced_feeders, feeder_id)])

analyze_current_balance(cdata, assignments) ==
    LET feeder_structure == organize_by_feeder_and_phase(assignments, cdata)
        acc == AnalyzeFrom(feeder_structure, cdata, 1,
                  [feeder_analysis |-> <<>>, imbalanced_feeders |-> <<>>,
                   balanced_feeders |-> <<>>])
    IN  [feeder_analysis |-> acc.feeder_analysis,
         overall_stats |->
             [total_feeders |-> Len(feeder_structure.order),
              total_customers |-> Len(assignments),
              imbalanced_feeders |-> acc.imbalanced_feeders,
              balanced_feeders |-> acc.balanced_feeders]]

RECURSIVE TotalImbalance(_, _, _)
TotalImbalance(feeder_structure, cdata, f) ==
    IF f > Len(feeder_structure.order) THEN RZero
    ELSE RAdd(calculate_imbalance(calculate_phase_loads(
                  feeder_structure.phases[feeder_structure.order[f]], cdata)),
              TotalImbalance(feeder_structure, cdata, f + 1))

RECURSIVE TotalLoad(_, _, _)
TotalLoad(feeder_structure, cdata, f) ==
    IF f > Len(feeder_structure.order) THEN 0
    ELSE SumLoads(calculate_phase_loads(
                  feeder_structure.phases[feeder_structure.order[f]], cdata), 1)
         + TotalLoad(feeder_structure, cdata, f + 1)

\* avg_imbalance and total_load_kw over the feeders (avg_voltage is not modelled).
calculate_overall_stats(feeder_structure, cdata) ==
    LET total_feeders == Len(feeder_structure.order)
    IN  [avg_imbalance |->
             IF total_feeders > 0
             THEN RDivInt(TotalImbalance(feeder_structure, cdata, 1), total_feeders)
             ELSE RZero,
         total_load_kw |-> TotalLoad(feeder_structure, cdata, 1)]

-----------------------------------------------------------------------------
(* simulate_balancing.  Python lists hold references: the assignment dicts   *)
(* live in a heap (reference -> dict) and a list is a sequence of            *)
(* references.                                                               *)

\* list.copy(): a new list holding the same references.
ListCopy(refs) == refs

Deref(heap, refs) == [i \in 1..Len(refs) |-> heap[refs[i]]]

\* (the customer's phase assignments replaced by one entry on the new phase)
RephaseMerged(assignment, new_phase) ==
    [assignment EXCEPT !.phase_assignments =
        IF Len(@) = 0 THEN @
        ELSE <<[@[1] EXCEPT !.assigned_feeder_phase = new_phase]>>]

\* for pa in assignment['phase_assignments']: pa['assigned_feeder_phase'] = new_phase
Rephase(assignment, new_phase) ==
    LET pas == assignment.phase_assignments
    IN  [assignment EXCEPT !.phase_assignments =
            [k \in 1..Len(pas) |-> [pas[k] EXCEPT !.assigned_feeder_phase = new_phase]]]

\* The first position of the list whose assignment is the customer's, 0 if none.
RECURSIVE FindAssignment(_, _, _, _)
FindAssignment(heap, refs, customer_id, i) ==
    IF i > Len(refs) THEN 0
    ELSE IF heap[refs[i]].customer_id = customer_id THEN i
    ELSE FindAssignment(heap, refs, customer_id, i + 1)

\* One iteration of the loop over balancing_moves: the dict found through the
\* list is updated in place.
ApplyMove(heap, refs, move) ==
    LET i == FindAssignment(heap, refs, move.customer_id, 1)
    IN  IF i = 0 THEN heap
        ELSE [heap EXCEPT ![refs[i]] = Rephase(@, move.to_phase)]

\* (the moves applied from the last to the first)
RECURSIVE ApplyMovesBackwards(_, _, _, _)
ApplyMovesBackwards(heap, refs, moves, k) ==
    IF k > Len(moves) THEN heap
    ELSE ApplyMove(ApplyMovesBackwards(heap, refs, moves, k + 1), refs, moves[k])

RECURSIVE ApplyMoves(_, _, _, _)
ApplyMoves(heap, refs, moves, k) ==
    IF k > Len(moves) THEN heap
    ELSE ApplyMoves(ApplyMove(heap, refs, moves[k]), refs, moves, k + 1)

\* The first half of simulate_balancing: the copy of the list and the moves
\* applied to it; the new list and the caller's list as the loop leaves them.
apply_balancing_moves(original_assignments, balancing_moves) ==
    LET original == [i \in 1..Len(original_assignments) |-> i]
        new_assignments == ListCopy(original)
        heap == ApplyMoves(original_assignments, new_assignments, balancing_moves, 1)
    IN  [new_assignments |-> Deref(heap, new_assignments),
         original_assignments |-> Deref(heap, original)]

\* (before_loss_factor - after_loss_factor) / before_loss_factor * 100 with the
\* loss factors (1 + avg_imbalance)^2.  Equal imbalances have equal factors and
\* the quotient 0; they are told apart first, which keeps their squares out of
\* the integer arithmetic.
LossReduction(before, after) ==
    IF before.avg_imbalance = after.avg_imbalance
    THEN RZero
    ELSE LET before_loss_factor ==
                 RMul(RAdd(ROne, before.avg_imbalance), RAdd(ROne, before.avg_imbalance))
             after_loss_factor ==
                 RMul(RAdd(ROne, after.avg_imbalance), RAdd(ROne, after.avg_imbalance))
         IN  RMul(RDiv(RSub(before_loss_factor, after_loss_factor), before_loss_factor),
                  [n |-> 100, d |-> 1])

\* Losses taken as proportional to (1 + imbalance)^2.  before_loss_factor is
\* positive exactly when 1 + avg_imbalance is not 0.
estimate_loss_reduction(before, after) ==
    IF RAdd(ROne, before.avg_imbalance).n # 0
    THEN RMax(RZero, LossReduction(before, after))
    ELSE RZero

\* The result of the call and the caller's list as the call leaves it.
simulate_balancing(original_assignments, balancing_moves, cdata) ==
    LET moved == apply_balancing_moves(original_assignments, balancing_moves)
        before_structure == organize_by_feeder_and_phase(moved.original_assignments, cdata)
        after_structure == organize_by_feeder_and_phase(moved.new_assignments, cdata)
        before_stats == calculate_overall_stats(before_structure, cdata)
        after_stats == calculate_overall_stats(after_structure, cdata)
    IN  [result |->
            [before |-> before_stats,
             after |-> after_stats,
             improvements |->
                 [imbalance_reduction |->
                      RSub(before_stats.avg_imbalance, after_stats.avg_imbalance),
                  loss_reduction_percentage |->
                      estimate_loss_reduction(before_stats, after_stats)],
             moves_applied |-> Len(balancing_moves)],
         new_assignments |-> moved.new_assignments,
         original_assignments |-> moved.original_assignments]

-----------------------------------------------------------------------------
(* NMDAnalysisProcessor.  Timestamps are minutes; voltages are integer volts. *)
(* The correlation, the RMSE and the score are floats in the code; here they  *)
(* are fixed-point: correlation and score in thousandths, RMSE in tenths of a *)
(* volt, each rounded down.                                                   *)

\* A cell that is missing or not numeric (dropped by dropna / to_numeric).
Missing == -1

\* A data frame: the datetime of each row and, per voltage column, the cell of
\* each row.
VoltageFrame(times, cols) == [times |-> times, cols |-> cols]

\* df[['datetime', col]] with the missing and non-numeric cells dropped.
RECURSIVE CleanFrom(_, _, _)
CleanFrom(df, col, i) ==
    IF i > Len(df.times) THEN <<>>
    ELSE (IF df.cols[col][i] = Missing THEN <<>>
          ELSE <<[t |-> df.times[i], v |-> df.cols[col][i]]>>)
         \o CleanFrom(df, col, i + 1)

RECURSIVE InsertByTime(_, _)
InsertByTime(sorted, row) ==
    IF Len(sorted) = 0 THEN <<row>>
    ELSE IF row.t < sorted[1].t THEN <<row>> \o sorted
    ELSE <<sorted[1]>> \o InsertByTime(Tail(sorted), row)

\* sort_values('datetime')
RECURSIVE SortByTime(_, _, _)
SortByTime(rows, i, sorted) ==
    IF i > Len(rows) THEN sorted
    ELSE SortByTime(rows, i + 1, InsertByTime(sorted, rows[i]))

\* (the first feeder row within the window taken, whatever its distance)
ClosestFromFirstInWindow(feeder_rows, customer_time, j, best) ==
    IF \E k \in j..Len(feeder_rows) : Abs(feeder_rows[k].t - customer_time) <= 15
    THEN CHOOSE k \in j..Len(feeder_rows) :
            /\ Abs(feeder_rows[k].t - customer_time) <= 15
            /\ \A l \in j..(k - 1) : Abs(feeder_rows[l].t - customer_time) > 15
    ELSE 0

\* (the window taken exclusive)
WithinWindowExclusive(diff) == diff < TimeWindowMinutes

\* time_diffs <= time_window
WithinWindow(diff) == diff <= TimeWindowMinutes

\* np.argmin(time_diffs[valid_indices]) mapped back to a feeder index: the
\* first feeder row, among those within the window, of least time difference;
\* 0 when no row is within the window.
RECURSIVE ClosestFrom(_, _, _, _)
ClosestFrom(feeder_rows, customer_time, j, best) ==
    IF j > Len(feeder_rows) THEN best
    ELSE LET diff == Abs(feeder_rows[j].t - customer_time)
         IN  ClosestFrom(feeder_rows, customer_time, j + 1,
                IF WithinWindow(diff)
                   /\ (best = 0 \/ diff < Abs(feeder_rows[best].t - customer_time))
                THEN j ELSE best)

\* The loop over customer_times.
RECURSIVE AlignedPairs(_, _, _)
AlignedPairs(customer_rows, feeder_rows, i) ==
    IF i > Len(customer_rows) THEN <<>>
    ELSE LET j == ClosestFrom(feeder_rows, customer_rows[i].t, 1, 0)
         IN  (IF j = 0 THEN <<>>
              ELSE <<[customer_voltage |-> customer_rows[i].v,
                      feeder_voltage |-> feeder_rows[j].v,
                      time_diff_minutes |-> Abs(feeder_rows[j].t - customer_rows[i].t),
                      customer_time |-> customer_rows[i].t,
                      feeder_time |-> feeder_rows[j].t]>>)
             \o AlignedPairs(customer_rows, feeder_rows, i + 1)

None == [ok |-> FALSE]

\* The aligned pairs, or None when a series is empty or fewer than ten pairs
\* are found.
align_timestamps(customer_df, customer_col, feeder_df, feeder_col) ==
    LET customer_clean == SortByTime(CleanFrom(customer_df, customer_col, 1), 1, <<>>)
        feeder_clean == SortByTime(CleanFrom(feeder_df, feeder_col, 1), 1, <<>>)
    IN  IF Len(customer_clean) = 0 \/ Len(feeder_clean) = 0 THEN None
        ELSE LET aligned_pairs == AlignedPairs(customer_clean, feeder_clean, 1)
             IN  IF Len(aligned_pairs) < MinAlignedPoints THEN None
                 ELSE [ok |-> TRUE, pairs |-> aligned_pairs]

\* The largest k with k * k <= n, by bisection on lo..hi.
RECURSIVE ISqrtIn(_, _, _)
ISqrtIn(n, lo, hi) ==
    IF lo >= hi THEN lo
    ELSE LET mid == (lo + hi + 1) \div 2
         IN  IF mid * mid <= n THEN ISqrtIn(n, mid, hi) ELSE ISqrtIn(n, lo, mid - 1)

ISqrt(n) == ISqrtIn(n, 0, IF n < 46340 THEN n ELSE 46340)

RECURSIVE SumOver(_, _, _)
\* The sum of term[k] for k in i..Len(term).
SumOver(term, i, acc) ==
    IF i > Len(term) THEN acc ELSE SumOver(term, i + 1, acc + term[i])

\* pearsonr(customer_voltage, feeder_voltage) in thousandths; a constant
\* series makes it NaN, which the caller replaces by 0.
Correlation(pairs) ==
    LET n == Len(pairs)
        sx == SumOver([k \in 1..n |-> pairs[k].customer_voltage], 1, 0)
        sy == SumOver([k \in 1..n |-> pairs[k].feeder_voltage], 1, 0)
        sxy == SumOver([k \in 1..n |->
                   pairs[k].customer_voltage * pairs[k].feeder_voltage], 1, 0)
        sxx == SumOver([k \in 1..n |->
                   pairs[k].customer_voltage * pairs[k].customer_voltage], 1, 0)
        syy == SumOver([k \in 1..n |->
                   pairs[k].feeder_voltage * pairs[k].feeder_voltage], 1, 0)
        cov == n * sxy - sx * sy
        vx == n * sxx - sx * sx
        vy == n * syy - sy * sy
    IN  IF vx = 0 \/ vy = 0 THEN 0
        ELSE LET r == (1000 * Abs(cov)) \div ISqrt(vx * vy)
             IN  IF cov < 0 THEN -r ELSE r

\* np.sqrt(np.mean((customer_voltage - feeder_voltage) ** 2)) in tenths of a volt.
Rmse(pairs) ==
    LET n == Len(pairs)
        sq == SumOver([k \in 1..n |->
                  (pairs[k].customer_voltage - pairs[k].feeder_voltage)
                      * (pairs[k].customer_voltage - pairs[k].feeder_voltage)], 1, 0)
    IN  ISqrt((100 * sq) \div n)

\* (the two terms of the score exchanged)
ScoreInverted(correlation, rmse) ==
    (100 * rmse) \div (2 * NominalVoltage) - Abs(correlation)

\* abs(correlation) - 0.5 * (rmse / 230.0), in thousandths.
Score(correlation, rmse) ==
    Abs(correlation) - (100 * rmse) \div (2 * NominalVoltage)

\* The match record of one aligned candidate.
Match(pairs) ==
    LET correlation == Correlation(pairs)
        rmse == Rmse(pairs)
    IN  [correlation |-> correlation,
         rmse |-> rmse,
         score |-> Score(correlation, rmse),
         aligned_points |-> Len(pairs)]

\* (the last match of maximal score taken)
RECURSIVE BestByScoreLast(_, _, _)
BestByScoreLast(matches, k, best) ==
    IF k > Len(matches) THEN matches[best]
    ELSE BestByScoreLast(matches, k + 1,
            IF matches[k].score >= matches[best].score THEN k ELSE best)

\* max(matches, key=score): the first match of maximal score.
RECURSIVE BestByScore(_, _, _)
BestByScore(matches, k, best) ==
    IF k > Len(matches) THEN matches[best]
    ELSE BestByScore(matches, k + 1,
            IF matches[k].score > matches[best].score THEN k ELSE best)

PhaseAssignmentOf(customer_phase, best_match) ==
    [customer_phase |-> customer_phase,
     assigned_feeder_phase |-> best_match.feeder_phase,
     correlation |-> best_match.correlation,
     rmse |-> best_match.rmse,
     score |-> best_match.score,
     aligned_points |-> best_match.aligned_points]

\* SelectSeq as a recursion: the matches of one customer phase, in order.
RECURSIVE MatchesOfPhase(_, _, _)
MatchesOfPhase(phase_matches, customer_phase, k) ==
    IF k > Len(phase_matches) THEN <<>>
    ELSE (IF phase_matches[k].customer_phase = customer_phase
          THEN <<phase_matches[k]>> ELSE <<>>)
         \o MatchesOfPhase(phase_matches, customer_phase, k + 1)

\* The multi-phase branch: the customer phases that have matches, in sorted
\* order, each with its best match.
RECURSIVE AssignPhases(_, _)
AssignPhases(phase_matches, i) ==
    IF i > Len(PhaseLabels) THEN <<>>
    ELSE LET matches == MatchesOfPhase(phase_matches, PhaseLabels[i], 1)
         IN  (IF Len(matches) = 0 THEN <<>>
              ELSE <<PhaseAssignmentOf(PhaseLabels[i], BestByScore(matches, 1, 1))>>)
             \o AssignPhases(phase_matches, i + 1)

determine_phase_assignments(phase_matches, num_customer_phases) ==
    IF num_customer_phases = 1
    THEN LET best_match == BestByScore(phase_matches, 1, 1)
         IN  <<PhaseAssignmentOf(best_match.customer_phase, best_match)>>
    ELSE AssignPhases(phase_matches, 1)

\* The double loop over customer and feeder voltage columns; (i, j) runs
\* through the pairs row by row.
RECURSIVE PhaseMatches(_, _, _, _)
PhaseMatches(customer_df, feeder_df, i, j) ==
    IF i > Len(customer_df.cols) THEN <<>>
    ELSE IF j > Len(feeder_df.cols) THEN PhaseMatches(customer_df, feeder_df, i + 1, 1)
    ELSE LET aligned_data == align_timestamps(customer_df, i, feeder_df, j)
         IN  (IF ~aligned_data.ok \/ Len(aligned_data.pairs) < MinAlignedPoints THEN <<>>
              ELSE LET m == Match(aligned_data.pairs)
                   IN  <<[customer_phase |-> PhaseLabels[i],
                          feeder_phase |-> PhaseLabels[j],
                          correlation |-> m.correlation,
                          rmse |-> m.rmse,
                          score |-> m.score,
                          aligned_points |-> m.aligned_points]>>)
             \o PhaseMatches(customer_df, feeder_df, i, j + 1)

analyze_phase_correlation(customer_df, feeder_df) ==
    LET phase_matches == PhaseMatches(customer_df, feeder_df, 1, 1)
    IN  IF Len(phase_matches) = 0 THEN None
        ELSE [ok |-> TRUE,
              phase_matches |-> phase_matches,
              phase_assignments |->
                  determine_phase_assignments(phase_matches, Len(customer_df.cols))]

\* (a candidate replaces the best one already on an equal score)
BetterLastWins(score, best_score) == score >= best_score

\* score > best_score
Better(score, best_score) == score > best_score

\* The loop over all_feeders: feeder_df maps a feeder id to its rows (the
\* frame filtered by CUSTOMER_REF); both frames have a first voltage column.
RECURSIVE BestFeederFrom(_, _, _, _, _, _)
BestFeederFrom(customer_df, feeder_df, all_feeders, f, best_match, best_score) ==
    IF f > Len(all_feeders) THEN best_match
    ELSE LET feeder_id == all_feeders[f]
             feeder_rows == feeder_df[feeder_id]
             aligned_data ==
                 IF Len(feeder_rows.times) = 0 THEN None
                 ELSE align_timestamps(customer_df, 1, feeder_rows, 1)
         IN  IF ~aligned_data.ok \/ Len(aligned_data.pairs) < MinAlignedPoints
             THEN BestFeederFrom(customer_df, feeder_df, all_feeders, f + 1,
                                 best_match, best_score)
             ELSE LET m == Match(aligned_data.pairs)
                  IN  IF Better(m.score, best_score)
                      THEN BestFeederFrom(customer_df, feeder_df, all_feeders, f + 1,
                              [ok |-> TRUE,
                               feeder_id |-> feeder_id,
                               correlation |-> m.correlation,
                               rmse |-> m.rmse,
                               score |-> m.score,
                               aligned_points |-> m.aligned_points],
                              m.score)
                      ELSE BestFeederFrom(customer_df, feeder_df, all_feeders, f + 1,
                                          best_match, best_score)

\* The best feeder match with the phase assignments of the phase analysis; an
\* empty phase_assignments stands for a match without phase analysis.
find_best_feeder_match_multi(customer_df, feeder_df, all_feeders) ==
    LET best_match == BestFeederFrom(customer_df, feeder_df, all_feeders, 1, None, -1000)
    IN  IF ~best_match.ok THEN None
        ELSE LET phase_analysis ==
                     analyze_phase_correlation(customer_df, feeder_df[best_match.feeder_id])
             IN  [ok |-> TRUE,
                  feeder_id |-> best_match.feeder_id,
                  correlation |-> best_match.correlation,
                  rmse |-> best_match.rmse,
                  score |-> best_match.score,
                  aligned_points |-> best_match.aligned_points,
                  phase_matches |->
                      IF phase_analysis.ok THEN phase_analysis.phase_matches ELSE <<>>,
                  phase_assignments |->
                      IF phase_analysis.ok THEN phase_analysis.phase_assignments ELSE <<>>]

\* The assignment dict of a customer the selector matched.
AssignmentOf(customer_id, best_match) ==
    [customer_id |-> customer_id,
     assigned_feeder |-> best_match.feeder_id,
     correlation |-> best_match.correlation,
     rmse |-> best_match.rmse,
     aligned_points |-> best_match.aligned_points,
     score |-> best_match.score,
     phase_assignments |-> best_match.phase_assignments]

\* if best_match: results['assignments'].append(assignment)
AppendIfMatched(customer_id, best_match) ==
    IF best_match.ok THEN <<AssignmentOf(customer_id, best_match)>> ELSE <<>>

\* (the loop left at the first customer without a match)
RECURSIVE AssignmentsUntilUnmatched(_, _, _, _)
AssignmentsUntilUnmatched(cdata, feeder_df, all_feeders, i) ==
    IF i > Cardinality(DOMAIN cdata) THEN <<>>
    ELSE LET entry == AppendIfMatched(i,
                          find_best_feeder_match_multi(cdata[i], feeder_df, all_feeders))
         IN  IF entry = <<>> THEN <<>>
             ELSE entry \o AssignmentsUntilUnmatched(cdata, feeder_df, all_feeders, i + 1)

\* The loop over customer_data.items(), customer ids in upload order 1, 2, ...:
\* an assignment per customer with a best match.
RECURSIVE AssignmentsFrom(_, _, _, _)
AssignmentsFrom(cdata, feeder_df, all_feeders, i) ==
    IF i > Cardinality(DOMAIN cdata) THEN <<>>
    ELSE AppendIfMatched(i, find_best_feeder_match_multi(cdata[i], feeder_df, all_feeders))
         \o AssignmentsFrom(cdata, feeder_df, all_feeders, i + 1)

RECURSIVE InsertByCorrelation(_, _)
InsertByCorrelation(sorted, assignment) ==
    IF Len(sorted) = 0 THEN <<assignment>>
    ELSE IF assignment.correlation > sorted[1].correlation
         THEN <<assignment>> \o sorted
         ELSE <<sorted[1]>> \o InsertByCorrelation(Tail(sorted), assignment)

\* assignments.sort(key=correlation, reverse=True): stable, highest first
RECURSIVE SortByCorrelation(_, _, _)
SortByCorrelation(assignments, i, sorted) ==
    IF i > Len(assignments) THEN sorted
    ELSE SortByCorrelation(assignments, i + 1,
                           InsertByCorrelation(sorted, assignments[i]))

\* The results of a correlation run over the session's uploads.
analyze_correlations(cdata, fdata) ==
    [assignments |->
        SortByCorrelation(AssignmentsFrom(cdata, fdata.frames, fdata.all_feeders, 1),
                          1, <<>>),
     analysis_metadata |->
        [present |-> TRUE,
         total_customers |-> Cardinality(DOMAIN cdata),
         total_feeders |-> Len(fdata.all_feeders)]]

-----------------------------------------------------------------------------
(* The topology graph.  A node id is a formatted string in the code           *)
(* ('transformer', f'feeder_{feeder_id}', f'phase_{feeder_id}_{phase}',       *)
(* f'customer_{customer_id}'); here it is the record of its parts, so two ids *)
(* are equal exactly when their kind and the parts their kind uses are equal. *)

NodeId(kind, feeder_id, phase_name, customer_id) ==
    [kind |-> kind, feeder_id |-> feeder_id, phase_name |-> phase_name,
     customer_id |-> customer_id]

TransformerNodeId == NodeId("transformer", "", "", 0)
FeederNodeId(feeder_id) == NodeId("feeder", feeder_id, "", 0)
PhaseNodeId(feeder_id, phase_name) == NodeId("phase", feeder_id, phase_name, 0)
CustomerNodeId(customer_id) == NodeId("customer", "", "", customer_id)

Node(id, type, level) == [id |-> id, type |-> type, level |-> level]
Edge(source, target) == [source |-> source, target |-> target]

\* The phase assignments of one customer: a label that is no key of the
\* feeder's dict is skipped.
RECURSIVE GraphAppendPhaseAssignments(_, _, _, _, _)
GraphAppendPhaseAssignments(fs, feeder_id, customer_id, phase_assignments, k) ==
    IF k > Len(phase_assignments) THEN fs
    ELSE GraphAppendPhaseAssignments(
            IF phase_assignments[k].assigned_feeder_phase \in PhaseSet
            THEN AppendCustomer(fs, feeder_id,
                                phase_assignments[k].assigned_feeder_phase, customer_id)
            ELSE fs,
            feeder_id, customer_id, phase_assignments, k + 1)

GraphOrganizeOne(fs, assignment) ==
    LET feeder_id == assignment.assigned_feeder
        fs1 == IF feeder_id \in DOMAIN fs.phases THEN fs
               ELSE [order |-> Append(fs.order, feeder_id),
                     phases |-> fs.phases @@ (feeder_id :> EmptyPhases)]
    IN  IF Len(assignment.phase_assignments) > 0
        THEN GraphAppendPhaseAssignments(fs1, feeder_id, assignment.customer_id,
                                         assignment.phase_assignments, 1)
        ELSE AppendCustomer(fs1, feeder_id, "Phase A", assignment.customer_id)

RECURSIVE GraphOrganizeFrom(_, _, _)
GraphOrganizeFrom(assignments, i, fs) ==
    IF i > Len(assignments) THEN fs
    ELSE GraphOrganizeFrom(assignments, i + 1, GraphOrganizeOne(fs, assignments[i]))

\* The loop over the customers of a phase: a node unless one of that id
\* exists, and an edge in either case.
RECURSIVE GraphAddCustomers(_, _, _, _)
GraphAddCustomers(graph, phase_node_id, customers, k) ==
    IF k > Len(customers) THEN graph
    ELSE LET customer_node_id == CustomerNodeId(customers[k])
         IN  GraphAddCustomers(
                [nodes |-> IF \E n \in 1..Len(graph.nodes) :
                                 graph.nodes[n].id = customer_node_id
                           THEN graph.nodes
                           ELSE Append(graph.nodes, Node(customer_node_id, "customer", 3)),
                 edges |-> Append(graph.edges, Edge(phase_node_id, customer_node_id))],
                phase_node_id, customers, k + 1)

\* The loop over the phases of a feeder: a phase without customers is skipped.
RECURSIVE GraphAddPhases(_, _, _, _)
GraphAddPhases(graph, feeder_id, phases, p) ==
    IF p > Len(PhaseNames) THEN graph
    ELSE LET customers == phases[PhaseNames[p]]
             phase_node_id == PhaseNodeId(feeder_id, PhaseNames[p])
         IN  GraphAddPhases(
                IF Len(customers) = 0 THEN graph
                ELSE GraphAddCustomers(
                        [nodes |-> Append(graph.nodes, Node(phase_node_id, "phase", 2)),
                         edges |-> Append(graph.edges,
                                          Edge(FeederNodeId(feeder_id), phase_node_id))],
                        phase_node_id, customers, 1),
                feeder_id, phases, p + 1)

RECURSIVE GraphAddFeeders(_, _, _)
GraphAddFeeders(graph, feeder_structure, f) ==
    IF f > Len(feeder_structure.order) THEN graph
    ELSE LET feeder_id == feeder_structure.order[f]
         IN  GraphAddFeeders(
                GraphAddPhases(
                    [nodes |-> Append(graph.nodes, Node(FeederNodeId(feeder_id), "feeder", 1)),
                     edges |-> Append(graph.edges,
                                      Edge(TransformerNodeId, FeederNodeId(feeder_id)))],
                    feeder_id, feeder_structure.phases[feeder_id], 1),
                feeder_structure, f + 1)

build_hierarchical_graph(assignments) ==
    LET feeder_structure ==
            GraphOrganizeFrom(assignments, 1, [order |-> <<>>, phases |-> <<>>])
        graph == GraphAddFeeders(
                    [nodes |-> <<Node(TransformerNodeId, "transformer", 0)>>,
                     edges |-> <<>>],
                    feeder_structure, 1)
    IN  [nodes |-> graph.nodes,
         edges |-> graph.edges,
         total_feeders |-> Len(feeder_structure.order),
         total_customers |-> Len(assignments)]

-----------------------------------------------------------------------------
(* _calculate_imbalance on its own: three phase loads in, the ratio out *)

PhaseLoadsOf(kw) ==
    [i \in 1..Len(kw) |->
        [phase_name |-> PhaseNames[i], total_load_kw |-> kw[i],
         total_reactive_kvar |-> 0, customer_count |-> 0, customers |-> <<>>]]

\* The session of a specification that calls one method directly.
NoSession ==
    /\ customer_data = <<>>
    /\ feeder_data = Absent
    /\ analysis_results = <<>>
    /\ analysis_metadata = Absent
    /\ balance_analysis = Absent
    /\ balancing_suggestions = Absent
    /\ simulation = Absent
    /\ request = [op |-> "none", moves |-> <<>>]

session == <<customer_data, feeder_data, analysis_results, analysis_metadata,
             balance_analysis, balancing_suggestions, simulation, request>>

InitImbalance ==
    /\ \E kw \in [1..3 -> 0..MaxPhaseLoad] :
          call = [fn |-> "_calculate_imbalance", loads |-> kw]
    /\ returned = Absent
    /\ NoSession

CalculateImbalance ==
    /\ call.fn = "_calculate_imbalance"
    /\ ~returned.present
    /\ returned' =
          [present |-> TRUE, value |-> calculate_imbalance(PhaseLoadsOf(call.loads))]
    /\ UNCHANGED <<session, call>>

NextImbalance == CalculateImbalance

SpecImbalance == InitImbalance /\ [][NextImbalance]_vars

-----------------------------------------------------------------------------
(* Voltage series of the correlation inputs.  A series samples a repeating   *)
(* pattern of volts every `tick` minutes from `start`; its last `gaps` cells *)
(* are missing.                                                              *)

PatternA == <<230, 231, 229, 230, 232>>
PatternB == <<210, 400, 150, 300, 100>>
PatternFlat == <<230>>
PatternD == <<229, 232, 230, 231, 230>>

SeriesTimes(start, tick, n) == [i \in 1..n |-> start + (i - 1) * tick]

SeriesCells(pattern, n, gaps) ==
    [i \in 1..n |-> IF i > n - gaps THEN Missing
                    ELSE pattern[((i - 1) % Len(pattern)) + 1]]

Column(pattern, gaps) == [pattern |-> pattern, gaps |-> gaps]

Series(start, tick, n, columns) ==
    VoltageFrame(SeriesTimes(start, tick, n),
                 [c \in 1..Len(columns) |->
                     SeriesCells(columns[c].pattern, n, columns[c].gaps)])

Ticks == {15, 60}

\* The lengths of a series: the five samples of a short profile, and the
\* lengths around the minimum of aligned points.
SeriesLens == {5} \cup (MinAlignedPoints - 1)..MaxSeriesLen

-----------------------------------------------------------------------------
(* _align_timestamps on its own: a customer series against a feeder series *)

AlignCustomerFrames ==
    { Series(start, tick, n, <<Column(PatternA, gaps)>>) :
        start \in 0..MaxOffset, tick \in Ticks, n \in SeriesLens, gaps \in {0, 1} }

AlignFeederFrames ==
    { Series(0, tick, n, <<Column(PatternA, 0)>>) :
        tick \in Ticks, n \in (MinAlignedPoints..MaxSeriesLen) }

\* The frame with its rows in the opposite order: an upload that is not
\* sorted by time.
Reversed(df) ==
    VoltageFrame([i \in 1..Len(df.times) |-> df.times[Len(df.times) + 1 - i]],
                 [c \in 1..Len(df.cols) |->
                     [i \in 1..Len(df.times) |-> df.cols[c][Len(df.times) + 1 - i]]])

RowOrders(frames) == frames \cup { Reversed(df) : df \in frames }

InitAlign ==
    /\ \E customer_df \in RowOrders(AlignCustomerFrames),
          feeder_df \in RowOrders(AlignFeederFrames) :
          call = [fn |-> "_align_timestamps",
                  customer_df |-> customer_df, feeder_df |-> feeder_df]
    /\ returned = Absent
    /\ NoSession

AlignTimestamps ==
    /\ call.fn = "_align_timestamps"
    /\ ~returned.present
    /\ returned' =
          [present |-> TRUE,
           value |-> align_timestamps(call.customer_df, 1, call.feeder_df, 1)]
    /\ UNCHANGED <<session, call>>

NextAlign == AlignTimestamps

SpecAlign == InitAlign /\ [][NextAlign]_vars

-----------------------------------------------------------------------------
(* _find_best_feeder_match_multi on its own: one customer against the feeders *)

\* The voltage columns of a customer frame: one phase or two, a flat profile,
\* trailing cells missing.
CustomerColumns ==
    { <<Column(PatternA, 0)>>,
      <<Column(PatternFlat, 0)>>,
      <<Column(PatternA, 2)>>,
      <<Column(PatternA, 0), Column(PatternD, 0)>>,
      <<Column(PatternA, 0), Column(PatternD, 2)>> }

SelectCustomerFrames ==
    { Series(start, tick, n, columns) :
        start \in {0, TimeWindowMinutes, MaxOffset}, tick \in Ticks, n \in SeriesLens,
        columns \in CustomerColumns }

\* The feeder rows of one feeder ref, by the number of voltage columns of the
\* feeder frame.
FeederFrames(num_cols) ==
    { Series(0, tick, n, columns) :
        tick \in Ticks, n \in {5, MinAlignedPoints},
        columns \in IF num_cols = 1
                    THEN { <<Column(PatternA, 0)>>, <<Column(PatternB, 0)>>,
                           <<Column(PatternFlat, 0)>> }
                    ELSE { <<Column(PatternA, 0), Column(PatternB, 0)>>,
                           <<Column(PatternB, 0), Column(PatternA, 0)>> } }

FeederOrders == { <<"A">>, <<"A", "B">>, <<"B", "A">> }

\* session['feeder_data']: all_feeder_refs in upload order and the rows of
\* each ref; one frame, so every ref has the same voltage columns.
FeederTables ==
    UNION { UNION { { [present |-> TRUE, all_feeders |-> order, frames |-> frames] :
                        frames \in [Range(order) -> FeederFrames(num_cols)] } :
                    order \in FeederOrders } :
            num_cols \in 1..2 }

InitSelect ==
    /\ \E customer_df \in SelectCustomerFrames, table \in FeederTables :
          call = [fn |-> "_find_best_feeder_match_multi",
                  customer_df |-> customer_df,
                  feeder_df |-> table.frames,
                  all_feeders |-> table.all_feeders]
    /\ returned = Absent
    /\ NoSession

FindBestFeederMatchMulti ==
    /\ call.fn = "_find_best_feeder_match_multi"
    /\ ~returned.present
    /\ returned' =
          [present |-> TRUE,
           value |-> find_best_feeder_match_multi(call.customer_df, call.feeder_df,
                                                  call.all_feeders)]
    /\ UNCHANGED <<session, call>>

NextSelect == FindBestFeederMatchMulti

SpecSelect == InitSelect /\ [][NextSelect]_vars

-----------------------------------------------------------------------------
(* _find_best_feeder_match_multi with feeder voltages far from the customer's *)

\* A feeder column recorded 460 V and 470 V above a customer at 230 V.
PatternDistant == <<690>>
PatternBeyond == <<700>>

DistantCustomerFrames ==
    { Series(start, 15, n, columns) :
        start \in {0, TimeWindowMinutes}, n \in {5, MinAlignedPoints},
        columns \in { <<Column(PatternA, 0)>>, <<Column(PatternFlat, 0)>> } }

DistantFeederFrames ==
    { Series(0, 15, n, <<Column(pattern, 0)>>) :
        n \in {5, MinAlignedPoints},
        pattern \in {PatternA, PatternDistant, PatternBeyond} }

DistantFeederTables ==
    UNION { { [present |-> TRUE, all_feeders |-> order, frames |-> frames] :
                frames \in [Range(order) -> DistantFeederFrames] } :
            order \in FeederOrders }

InitDistant ==
    /\ \E customer_df \in DistantCustomerFrames, table \in DistantFeederTables :
          call = [fn |-> "_find_best_feeder_match_multi",
                  customer_df |-> customer_df,
                  feeder_df |-> table.frames,
                  all_feeders |-> table.all_feeders]
    /\ returned = Absent
    /\ NoSession

NextDistant == FindBestFeederMatchMulti

SpecDistant == InitDistant /\ [][NextDistant]_vars

-----------------------------------------------------------------------------
(* A correlation run over a session with both uploads *)

\* Customer uploads: full profiles of one and two phases, on the feeder's
\* ticks and off them, one with its last two cells missing, and a short one.
RunCustomerFrames ==
    { Series(start, 15, MaxSeriesLen, columns) :
        start \in {0, MaxOffset},
        columns \in { <<Column(PatternA, 0)>>,
                      <<Column(PatternA, 0), Column(PatternD, 0)>> } }
    \cup { Series(0, 15, MaxSeriesLen, <<Column(PatternA, 2)>>),
           Series(0, 15, 5, <<Column(PatternA, 0)>>) }

RunFeederFrames ==
    { Series(0, 15, MinAlignedPoints, <<Column(PatternA, 0)>>),
      Series(0, 15, MinAlignedPoints, <<Column(PatternB, 0)>>),
      Series(0, 60, MinAlignedPoints, <<Column(PatternA, 0)>>),
      Series(0, 15, MinAlignedPoints,
             <<Column(PatternD, 0), Column(PatternB, 0), Column(PatternB, 0),
               Column(PatternA, 0)>>) }

RunFeederTables ==
    UNION { { [present |-> TRUE, all_feeders |-> order, frames |-> frames] :
                frames \in [Range(order) -> RunFeederFrames] } :
            order \in { <<"A">>, <<"B", "A">> } }

InitRun ==
    /\ \E n \in 1..MaxCustomers : customer_data \in [1..n -> RunCustomerFrames]
    /\ feeder_data \in RunFeederTables
    /\ analysis_results = <<>>
    /\ analysis_metadata = Absent
    /\ balance_analysis = Absent
    /\ balancing_suggestions = Absent
    /\ simulation = Absent
    /\ request = [op |-> "none", moves |-> <<>>]
    /\ call = NoCall
    /\ returned = Absent

\* POST /api/nmd-analysis/analyze: the results replace session['analysis_results']
AnalyzeCorrelations ==
    /\ request.op = "none"
    /\ \E results \in {analyze_correlations(customer_data, feeder_data)} :
          /\ analysis_results' = results.assignments
          /\ analysis_metadata' = results.analysis_metadata
    /\ request' = [op |-> "correlate", moves |-> <<>>]
    /\ UNCHANGED <<customer_data, feeder_data, balance_analysis,
                   balancing_suggestions, simulation, call, returned>>

NextRun == AnalyzeCorrelations

SpecRun == InitRun /\ [][NextRun]_vars

-----------------------------------------------------------------------------
(* The session after a correlation run, and the smart-grid handlers *)

CustomerIds == [i \in 1..MaxCustomers |-> i]

FeederIds == {"F1", "F2"}

\* The feeder phases of a customer's phase assignments, in customer phase order;
\* the empty list stands for a match without phase analysis.
PhaseChoices ==
    {<<>>, <<"Phase A">>, <<"Phase A", "Phase A">>, <<"Phase B", "Phase C">>}

Frames ==
    {NoFrame,
     Frame(1, TRUE, TRUE, 0, TRUE, TRUE, 0),
     Frame(1, TRUE, FALSE, 37, FALSE, FALSE, 0),
     Frame(1, TRUE, FALSE, 46, TRUE, FALSE, 9)}

Assignment(customer_id, feeder_id, phases) ==
    [customer_id |-> customer_id,
     assigned_feeder |-> feeder_id,
     phase_assignments |->
        [k \in 1..Len(phases) |->
            [customer_phase |-> PhaseNames[k], assigned_feeder_phase |-> phases[k]]]]

\* The assignment lists of n customers; feeder ids are only compared with each
\* other, so the first customer's feeder is called F1.
AssignmentLists(n) ==
    {[i \in 1..n |-> Assignment(CustomerIds[i], f[i], ph[i])] :
        f \in {g \in [1..n -> FeederIds] : n = 0 \/ g[1] = "F1"},
        ph \in [1..n -> PhaseChoices]}

\* A move as a request carries it.
RequestMoves ==
    {[customer_id |-> c, to_phase |-> p] : c \in 1..(MaxCustomers + 1), p \in PhaseSet}

RequestMoveLists == {<<>>} \cup {<<m>> : m \in RequestMoves}

Take(seq, n) == SubSeq(seq, 1, IF Len(seq) < n THEN Len(seq) ELSE n)

\* The feeder upload of the session; the balancing handlers do not read it.
BalanceFeederData ==
    [present |-> TRUE,
     all_feeders |-> <<"F1", "F2">>,
     frames |-> [f \in FeederIds |->
                    Series(0, 15, MinAlignedPoints, <<Column(PatternA, 0)>>)]]

InitBalance ==
    /\ \E n \in 0..MaxCustomers :
          /\ customer_data \in [{CustomerIds[i] : i \in 1..n} -> Frames]
          /\ analysis_results \in AssignmentLists(n)
          /\ analysis_metadata = [present |-> TRUE, total_customers |-> n,
                                  total_feeders |-> Cardinality(FeederIds)]
    /\ feeder_data = BalanceFeederData
    /\ balance_analysis = Absent
    /\ balancing_suggestions = Absent
    /\ simulation = Absent
    /\ request = [op |-> "none", moves |-> <<>>]
    /\ call = NoCall
    /\ returned = Absent

\* What the balancer reads of an uploaded frame: its rows and its power
\* columns.  A voltage upload has rows and neither power column.
PowerColumns(df) ==
    IF "times" \in DOMAIN df
    THEN Frame(Len(df.times), FALSE, FALSE, 0, FALSE, FALSE, 0)
    ELSE df

\* {cid: cdata['dataframe'] for cid, cdata in session['customer_data'].items()}
customer_data_dict == [cid \in DOMAIN customer_data |-> PowerColumns(customer_data[cid])]

\* The response of a handler whose body raised: except Exception -> 500.
Raised(exception) == [present |-> TRUE, value |-> [error |-> exception]]

\* POST /api/smart-grid/analyze-balance, as the first request after the run
analyze_load_balance ==
    /\ analysis_metadata.present
    /\ request.op \in {"none", "correlate"}
    /\ IF organize_raises(analysis_results)
       THEN /\ returned' = Raised("KeyError")
            /\ UNCHANGED balance_analysis
       ELSE /\ balance_analysis' =
                  [present |-> TRUE,
                   value |-> analyze_current_balance(customer_data_dict, analysis_results)]
            /\ returned' = Absent
    /\ request' = [op |-> "analyze", moves |-> <<>>]
    /\ UNCHANGED <<customer_data, feeder_data, analysis_results, analysis_metadata,
                   balancing_suggestions, simulation, call>>

\* POST /api/smart-grid/suggest-balancing, as the first request after the run
suggest_load_balancing ==
    /\ analysis_metadata.present
    /\ request.op \in {"none", "correlate"}
    /\ IF organize_raises(analysis_results)
       THEN /\ returned' = Raised("KeyError")
            /\ UNCHANGED balancing_suggestions
       ELSE /\ balancing_suggestions' =
                  [present |-> TRUE,
                   value |-> suggest_balancing_moves(customer_data_dict, analysis_results)]
            /\ returned' = Absent
    /\ request' = [op |-> "suggest", moves |-> <<>>]
    /\ UNCHANGED <<customer_data, feeder_data, analysis_results, analysis_metadata,
                   balance_analysis, simulation, call>>

\* The moves the simulate handler passes on: the request's, or the first five
\* stored suggestions when the request has none.
MovesToApply(moves, suggestions) ==
    IF Len(moves) = 0 /\ suggestions.present
    THEN Take(suggestions.value.suggestions, TopSuggestions)
    ELSE moves

\* POST /api/smart-grid/simulate-balancing, as the first request of the
\* session or after a suggest-balancing request
simulate_load_balancing ==
    /\ analysis_metadata.present
    /\ request.op \in {"none", "correlate", "suggest"}
    /\ \E moves \in RequestMoveLists :
          LET moved == apply_balancing_moves(analysis_results,
                           MovesToApply(moves, balancing_suggestions))
          IN  /\ IF organize_raises(moved.original_assignments)
                    \/ organize_raises(moved.new_assignments)
                 THEN /\ returned' = Raised("KeyError")
                      /\ UNCHANGED simulation
                 ELSE /\ simulation' =
                            [present |-> TRUE,
                             value |-> simulate_balancing(analysis_results,
                                           MovesToApply(moves, balancing_suggestions),
                                           customer_data_dict).result]
                      /\ returned' = Absent
              /\ analysis_results' = moved.original_assignments
              /\ request' = [op |-> "simulate", moves |-> moves]
    /\ UNCHANGED <<customer_data, feeder_data, analysis_metadata, balance_analysis,
                   balancing_suggestions, call>>

NextBalance ==
    \/ analyze_load_balance
    \/ suggest_load_balancing
    \/ simulate_load_balancing

SpecBalance == InitBalance /\ [][NextBalance]_vars

-----------------------------------------------------------------------------
(* The session from the uploads on: the correlation run, then the requests    *)
(* that read its results.                                                     *)

\* GET /api/nmd-analysis/network-graph, as the first request after the run
generate_network_graph ==
    /\ analysis_metadata.present
    /\ request.op = "correlate"
    /\ returned' =
          IF Len(analysis_results) = 0
          THEN [present |-> TRUE, value |-> [error |-> "No customer assignments found"]]
          ELSE [present |-> TRUE,
                value |-> [graph_data |-> build_hierarchical_graph(analysis_results)]]
    /\ request' = [op |-> "graph", moves |-> <<>>]
    /\ UNCHANGED <<customer_data, feeder_data, analysis_results, analysis_metadata,
                   balance_analysis, balancing_suggestions, simulation, call>>

NextSession ==
    \/ AnalyzeCorrelations
    \/ generate_network_graph
    \/ analyze_load_balance
    \/ suggest_load_balancing
    \/ simulate_load_balancing

SpecSession == InitRun /\ [][NextSession]_vars

-----------------------------------------------------------------------------
(* A session whose feeder upload is replaced after a suggest-balancing        *)
(* request, with a second correlation run over the new upload                 *)

\* The feeder files uploaded in place of the first one: a single feeder A.
ReplacementFeederTables ==
    { [present |-> TRUE, all_feeders |-> <<"A">>, frames |-> frames] :
        frames \in [{"A"} -> { Series(0, 15, MinAlignedPoints, <<Column(PatternA, 0)>>),
                               Series(0, 15, MinAlignedPoints, <<Column(PatternB, 0)>>) }] }

\* POST /api/nmd-analysis/upload-feeder, as the request after a
\* suggest-balancing request: session['feeder_data'] is replaced.
upload_feeder_nmd ==
    /\ request.op = "suggest"
    /\ feeder_data' \in ReplacementFeederTables
    /\ request' = [op |-> "upload", moves |-> <<>>]
    /\ UNCHANGED <<customer_data, analysis_results, analysis_metadata, balance_analysis,
                   balancing_suggestions, simulation, call, returned>>

\* POST /api/nmd-analysis/analyze, as the request after the upload: the results
\* replace session['analysis_results'].
AnalyzeCorrelationsAgain ==
    /\ request.op = "upload"
    /\ \E results \in {analyze_correlations(customer_data, feeder_data)} :
          /\ analysis_results' = results.assignments
          /\ analysis_metadata' = results.analysis_metadata
    /\ request' = [op |-> "correlate", moves |-> <<>>]
    /\ UNCHANGED <<customer_data, feeder_data, balance_analysis,
                   balancing_suggestions, simulation, call, returned>>

NextReplace ==
    \/ AnalyzeCorrelations
    \/ suggest_load_balancing
    \/ upload_feeder_nmd
    \/ AnalyzeCorrelationsAgain
    \/ simulate_load_balancing

SpecReplace == InitRun /\ [][NextReplace]_vars

-----------------------------------------------------------------------------
(* simulate_balancing on its own: two assigned customers and up to two moves  *)

SimulatedFrames == { NoFrame, Frame(1, TRUE, FALSE, 37, FALSE, FALSE, 0) }

SimulatedMoveLists ==
    RequestMoveLists \cup { <<m1, m2>> : m1 \in RequestMoves, m2 \in RequestMoves }

InitSimulate ==
    /\ \E original_assignments \in AssignmentLists(2),
          balancing_moves \in SimulatedMoveLists,
          cdata \in [{CustomerIds[1], CustomerIds[2]} -> SimulatedFrames] :
          call = [fn |-> "simulate_balancing",
                  original_assignments |-> original_assignments,
                  balancing_moves |-> balancing_moves,
                  customer_data |-> cdata]
    /\ returned = Absent
    /\ NoSession

SimulateBalancing ==
    /\ call.fn = "simulate_balancing"
    /\ ~returned.present
    /\ returned' =
          [present |-> TRUE,
           value |-> simulate_balancing(call.original_assignments, call.balancing_moves,
                                        call.customer_data)]
    /\ UNCHANGED <<session, call>>

NextSimulate == SimulateBalancing

SpecSimulate == InitSimulate /\ [][NextSimulate]_vars

-----------------------------------------------------------------------------
(* _estimate_loss_reduction on its own: the statistics before and after with  *)
(* every average imbalance k / ImbalanceSteps between 0 and 2.                 *)

AverageImbalances == { Rat(k, ImbalanceSteps) : k \in 0..(2 * ImbalanceSteps) }

OverallStats == { [avg_imbalance |-> r] : r \in AverageImbalances }

InitLoss ==
    /\ \E before \in OverallStats, after \in OverallStats :
          call = [fn |-> "_estimate_loss_reduction", before |-> before, after |-> after]
    /\ returned = Absent
    /\ NoSession

EstimateLossReduction ==
    /\ call.fn = "_estimate_loss_reduction"
    /\ ~returned.present
    /\ returned' =
          [present |-> TRUE, value |-> estimate_loss_reduction(call.before, call.after)]
    /\ UNCHANGED <<session, call>>

NextLoss == EstimateLossReduction

SpecLoss == InitLoss /\ [][NextLoss]_vars

-----------------------------------------------------------------------------
(* suggest_balancing_moves on its own: feeder F1 with a varying list of       *)
(* customers on Phase A and a few fillings of Phases B and C, and optionally  *)
(* a second feeder with six customers on one phase (next to an F1 that has    *)
(* customers on Phase A only).                                                *)

\* The frame of a single-phase customer of the given mean load; the default
\* load stands for a customer without data.
FrameOfLoad(kw) ==
    IF kw = DefaultLoadKw THEN NoFrame ELSE Frame(1, TRUE, FALSE, kw, FALSE, FALSE, 0)

ListedLoads == {0, DefaultLoadKw, 20}

ListedOnPhaseA == UNION { [1..k -> ListedLoads] : k \in 0..MaxListed }

ListedOnPhasesBC ==
    { [b |-> <<>>, c |-> <<>>],
      [b |-> <<5>>, c |-> <<5>>],
      [b |-> <<20>>, c |-> <<20, 5>>],
      [b |-> <<5>>, c |-> <<20, 20, 20, 20, 20, 20>>],
      [b |-> <<5, 5>>, c |-> <<20, 20>>] }

ListedOnSecondFeeder == { <<>>, <<5, 5, 5, 5, 5, 5>> }

\* One entry per customer: its feeder, its phase and its load.
EntriesOn(feeder_id, phase, loads) ==
    [k \in 1..Len(loads) |-> [feeder_id |-> feeder_id, phase |-> phase, kw |-> loads[k]]]

OptimizerEntries ==
    { EntriesOn("F1", "Phase A", a) \o EntriesOn("F1", "Phase B", bc.b)
        \o EntriesOn("F1", "Phase C", bc.c) :
      a \in ListedOnPhaseA, bc \in ListedOnPhasesBC }
    \cup { EntriesOn("F1", "Phase A", a) \o EntriesOn("F2", "Phase B", f2) :
            a \in ListedOnPhaseA, f2 \in ListedOnSecondFeeder }

EntryFrames(entries) == [i \in 1..Len(entries) |-> FrameOfLoad(entries[i].kw)]

EntryAssignments(entries) ==
    [i \in 1..Len(entries) |-> Assignment(i, entries[i].feeder_id, <<entries[i].phase>>)]

\* The arguments suggest_balancing_moves hands to _find_optimal_moves for
\* feeder F1 of the entries.
OptimizerArguments(entries) ==
    [fn |-> "_find_optimal_moves",
     feeder_id |-> "F1",
     phase_loads |->
         calculate_phase_loads(
             organize_by_feeder_and_phase(EntryAssignments(entries),
                                          EntryFrames(entries)).phases["F1"],
             EntryFrames(entries)),
     customer_data |-> EntryFrames(entries)]

InitOptimize ==
    /\ \E entries \in OptimizerEntries :
          \/ call = [fn |-> "suggest_balancing_moves",
                     customer_data |-> EntryFrames(entries),
                     assignments |-> EntryAssignments(entries)]
          \/ /\ entries # <<>>
             /\ \A i \in 1..Len(entries) : entries[i].feeder_id = "F1"
             /\ call = OptimizerArguments(entries)
    /\ returned = Absent
    /\ NoSession

SuggestBalancingMoves ==
    /\ call.fn = "suggest_balancing_moves"
    /\ ~returned.present
    /\ returned' =
          [present |-> TRUE,
           value |-> suggest_balancing_moves(call.customer_data, call.assignments)]
    /\ UNCHANGED <<session, call>>

FindOptimalMoves ==
    /\ call.fn = "_find_optimal_moves"
    /\ ~returned.present
    /\ returned' =
          [present |-> TRUE,
           value |-> find_optimal_moves(call.feeder_id, call.phase_loads, call.customer_data)]
    /\ UNCHANGED <<session, call>>

NextOptimize == SuggestBalancingMoves \/ FindOptimalMoves

SpecOptimize == InitOptimize /\ [][NextOptimize]_vars

-----------------------------------------------------------------------------
(* _determine_phase_assignments on its own: a score matrix of up to three     *)
(* customer phases by up to three feeder phases, some pairs without a match   *)

\* The score of a pair of phases, in thousandths; NoMatch for a pair that did
\* not reach the minimum of aligned points and so has no phase match.
NoMatch == Absent
MatrixScores == { [present |-> TRUE, value |-> s] : s \in {-200, 900} }

ScoreMatrices ==
    UNION { [(1..n) \X (1..m) -> MatrixScores \cup {NoMatch}] :
            n \in 1..Len(PhaseNames), m \in 1..Len(PhaseNames) }

\* The phase matches of a matrix in the order the double loop appends them.
RECURSIVE MatchesOfMatrix(_, _, _, _, _)
MatchesOfMatrix(matrix, n, m, i, j) ==
    IF i > n THEN <<>>
    ELSE IF j > m THEN MatchesOfMatrix(matrix, n, m, i + 1, 1)
    ELSE (IF matrix[<<i, j>>] = NoMatch THEN <<>>
          ELSE <<[customer_phase |-> PhaseLabels[i],
                  feeder_phase |-> PhaseLabels[j],
                  correlation |-> Abs(matrix[<<i, j>>].value),
                  rmse |-> 0,
                  score |-> matrix[<<i, j>>].value,
                  aligned_points |-> MinAlignedPoints]>>)
         \o MatchesOfMatrix(matrix, n, m, i, j + 1)

RowsOf(matrix) == { ij[1] : ij \in DOMAIN matrix }
ColumnsOf(matrix) == { ij[2] : ij \in DOMAIN matrix }

\* The call is made only with at least one phase match.
InitResolve ==
    /\ \E matrix \in ScoreMatrices :
          /\ \E ij \in DOMAIN matrix : matrix[ij] # NoMatch
          /\ call = [fn |-> "_determine_phase_assignments",
                     matrix |-> matrix,
                     phase_matches |->
                         MatchesOfMatrix(matrix, Cardinality(RowsOf(matrix)),
                                         Cardinality(ColumnsOf(matrix)), 1, 1),
                     num_customer_phases |-> Cardinality(RowsOf(matrix))]
    /\ returned = Absent
    /\ NoSession

DeterminePhaseAssignments ==
    /\ call.fn = "_determine_phase_assignments"
    /\ ~returned.present
    /\ returned' =
          [present |-> TRUE,
           value |-> determine_phase_assignments(call.phase_matches,
                                                 call.num_customer_phases)]
    /\ UNCHANGED <<session, call>>

NextResolve == DeterminePhaseAssignments

SpecResolve == InitResolve /\ [][NextResolve]_vars

-----------------------------------------------------------------------------
(* Properties *)

Occurrences(seq, x) == Cardinality({i \in 1..Len(seq) : seq[i] = x})

\* The assignment set with the moves applied, as a value: for each move in
\* turn, the first assignment of the customer gets every phase assignment set
\* to the move's target phase.
RECURSIVE WithMoves(_, _)
WithMoves(assignments, moves) ==
    IF Len(moves) = 0 THEN assignments
    ELSE LET m == moves[1]
             hit == {i \in 1..Len(assignments) : assignments[i].customer_id = m.customer_id}
             first == IF hit = {} THEN 0 ELSE CHOOSE i \in hit : \A j \in hit : i <= j
             moved == [i \in 1..Len(assignments) |->
                          IF i = first
                          THEN [assignments[i] EXCEPT !.phase_assignments =
                                   [k \in 1..Len(assignments[i].phase_assignments) |->
                                       [customer_phase |->
                                            assignments[i].phase_assignments[k].customer_phase,
                                        assigned_feeder_phase |-> m.to_phase]]]
                          ELSE assignments[i]]
         IN  WithMoves(moved, Tail(moves))

StatsOf(assignments) ==
    calculate_overall_stats(organize_by_feeder_and_phase(assignments, customer_data),
                            customer_data)

\* C1: simulate_balancing never modifies the assignment set it is given: after
\* a simulate request the stored assignments are what they were before it.
C1_SimulateKeepsAssignments ==
    [][request'.op = "simulate" => analysis_results' = analysis_results]_vars

\* C2: the simulation reports 'before' statistics of the assignment set as it
\* was when the call began and 'after' statistics of that set with the moves
\* applied.
C2_BeforeAndAfterStatistics ==
    [][request'.op = "simulate" =>
          /\ simulation'.value.before = StatsOf(analysis_results)
          /\ simulation'.value.after =
                StatsOf(WithMoves(analysis_results,
                                  MovesToApply(request'.moves, balancing_suggestions)))]_vars

\* |M.load - L.load| of the move's feeder in an assignment set, M and L being
\* the phases the move names.
GapOf(assignments, move) ==
    LET loads == calculate_phase_loads(
                     organize_by_feeder_and_phase(assignments, customer_data)
                         .phases[move.feeder_id], customer_data)
    IN  Abs(PhaseLoadOf(loads, move.from_phase, 1) - PhaseLoadOf(loads, move.to_phase, 1))

\* C3: every suggested move, simulated on its own on the assignment set it was
\* proposed from, strictly reduces |M.load - L.load| of its feeder.
C3_SuggestedMovesNarrowGap ==
    (request.op = "suggest") =>
        \A k \in 1..Len(balancing_suggestions.value.suggestions) :
            LET move == balancing_suggestions.value.suggestions[k]
                sim == simulate_balancing(analysis_results, <<move>>, customer_data)
            IN  GapOf(sim.new_assignments, move) < GapOf(analysis_results, move)

MaxOf(S) == CHOOSE x \in S : \A y \in S : y <= x

\* C4: the imbalance ratio is max |load - mean| / mean over the three phase
\* loads, 0 when the mean is 0; equal loads give 0 and [10, 10, 40] gives 1.
C4_ImbalanceRatio ==
    (call.fn = "_calculate_imbalance" /\ returned.present) =>
        LET phase_kw == call.loads
            total == phase_kw[1] + phase_kw[2] + phase_kw[3]
            \* three times the largest deviation from the mean
            dev == MaxOf({Abs(3 * phase_kw[i] - total) : i \in 1..3})
            ratio == returned.value
        IN  /\ ratio.d > 0
            /\ total = 0 => ratio.n = 0
            /\ total # 0 => ratio.n * total = ratio.d * dev
            /\ (phase_kw[1] = phase_kw[2] /\ phase_kw[2] = phase_kw[3]) => ratio.n = 0
            /\ phase_kw = <<10, 10, 40>> => ratio = [n |-> 1, d |-> 1]

C4_Witness ==
    /\ call.fn = "_calculate_imbalance"
    /\ returned.present
    /\ call.loads = <<10, 10, 40>>
    /\ returned.value = [n |-> 1, d |-> 1]

\* C5: a feeder is reported is_balanced exactly when its imbalance ratio is at
\* most 0.15, and every analysed feeder is in exactly one of balanced_feeders
\* and imbalanced_feeders, the one its is_balanced flag names.
C5_BalancedIffWithinThreshold ==
    balance_analysis.present =>
        LET fa == balance_analysis.value.feeder_analysis
            stats == balance_analysis.value.overall_stats
        IN  /\ DOMAIN fa = {analysis_results[i].assigned_feeder :
                                i \in 1..Len(analysis_results)}
            /\ Range(stats.balanced_feeders) \cup Range(stats.imbalanced_feeders) = DOMAIN fa
            /\ \A f \in DOMAIN fa :
                  /\ fa[f].is_balanced <=> (100 * fa[f].imbalance.n <= 15 * fa[f].imbalance.d)
                  /\ Occurrences(stats.balanced_feeders, f)
                        = (IF fa[f].is_balanced THEN 1 ELSE 0)
                  /\ Occurrences(stats.imbalanced_feeders, f)
                        = (IF fa[f].is_balanced THEN 0 ELSE 1)

\* A feeder whose ratio is exactly the threshold, reported balanced.
C5_Witness ==
    /\ balance_analysis.present
    /\ \E f \in DOMAIN balance_analysis.value.feeder_analysis :
          /\ balance_analysis.value.feeder_analysis[f].imbalance = [n |-> 3, d |-> 20]
          /\ balance_analysis.value.feeder_analysis[f].is_balanced
          /\ f \in Range(balance_analysis.value.overall_stats.balanced_feeders)


\* The customer series is the feeder series shifted by a constant offset:
\* the same number of samples, no cell missing, each customer sample `offset`
\* minutes after its feeder counterpart.
ConstantOffset ==
    /\ call.fn = "_align_timestamps"
    /\ Len(call.customer_df.times) = Len(call.feeder_df.times)
    /\ \A i \in 1..Len(call.customer_df.times) :
          /\ call.customer_df.cols[1][i] # Missing
          /\ call.feeder_df.cols[1][i] # Missing
          /\ call.customer_df.times[i] - call.feeder_df.times[i]
                = call.customer_df.times[1] - call.feeder_df.times[1]

OffsetOf == call.customer_df.times[1] - call.feeder_df.times[1]

\* The customer samples that have some feeder sample within 15 minutes.
SamplesInReach ==
    { i \in 1..Len(call.customer_df.times) :
        \E j \in 1..Len(call.feeder_df.times) :
            Abs(call.feeder_df.times[j] - call.customer_df.times[i]) <= 15 }

PairsReturned == IF returned.value.ok THEN Len(returned.value.pairs) ELSE 0

Reach(customer_df, ccol, feeder_rows, fcol) ==
    Cardinality(
        { i \in 1..Len(customer_df.times) :
            /\ customer_df.cols[ccol][i] # Missing
            /\ \E j \in 1..Len(feeder_rows.times) :
                  /\ feeder_rows.cols[fcol][j] # Missing
                  /\ Abs(feeder_rows.times[j] - customer_df.times[i]) <= 15 })

PhaseIndex(phase) == CHOOSE i \in 1..Len(PhaseLabels) : PhaseLabels[i] = phase

Selected == call.fn = "_find_best_feeder_match_multi" /\ returned.present

\* C7: a match the selector returns has at least 10 aligned points, as has
\* every phase match and every phase assignment in it, each of them from a
\* pair of columns whose alignment yields at least 10 pairs; when no candidate
\* feeder yields 10 pairs nothing is returned.
C7_NoMatchBelowTenAlignedPoints ==
    Selected =>
        LET m == returned.value
        IN  /\ m.ok =>
                /\ m.aligned_points >= 10
                /\ Reach(call.customer_df, 1, call.feeder_df[m.feeder_id], 1) >= 10
                /\ \A k \in 1..Len(m.phase_matches) :
                      /\ m.phase_matches[k].aligned_points >= 10
                      /\ Reach(call.customer_df,
                               PhaseIndex(m.phase_matches[k].customer_phase),
                               call.feeder_df[m.feeder_id],
                               PhaseIndex(m.phase_matches[k].feeder_phase)) >= 10
                /\ \A k \in 1..Len(m.phase_assignments) :
                      m.phase_assignments[k].aligned_points >= 10
            /\ (\A f \in Range(call.all_feeders) :
                    Reach(call.customer_df, 1, call.feeder_df[f], 1) < 10) => ~m.ok

\* A match is returned although another candidate feeder and one of the
\* customer's phases yield fewer than 10 pairs.
C7_Witness ==
    /\ Selected
    /\ returned.value.ok
    /\ \E f \in Range(call.all_feeders) :
          Reach(call.customer_df, 1, call.feeder_df[f], 1) \in 1..9
    /\ Len(call.customer_df.cols) = 2
    /\ Reach(call.customer_df, 2, call.feeder_df[returned.value.feeder_id], 1) \in 1..9
    /\ Len(returned.value.phase_assignments) = 1

\* The candidates that reach the minimum aligned points, as positions of
\* all_feeders, and the score of a candidate.
Qualifying ==
    { k \in 1..Len(call.all_feeders) :
        Reach(call.customer_df, 1, call.feeder_df[call.all_feeders[k]], 1) >= 10 }

CandidateScore(k) ==
    Match(align_timestamps(call.customer_df, 1,
                           call.feeder_df[call.all_feeders[k]], 1).pairs).score

\* C8: the feeder of a returned match is a candidate that reaches the minimum
\* aligned points, no such candidate has a higher score, and none earlier in
\* all_feeders has the same score.
C8_SelectorPicksFirstMaximum ==
    (Selected /\ returned.value.ok) =>
        \E k \in Qualifying :
            /\ call.all_feeders[k] = returned.value.feeder_id
            /\ returned.value.score = CandidateScore(k)
            /\ \A other \in Qualifying :
                  /\ CandidateScore(other) <= CandidateScore(k)
                  /\ other < k => CandidateScore(other) < CandidateScore(k)

\* Two candidates tie on the maximum and the one uploaded first, "B", wins.
C8_Witness ==
    /\ Selected
    /\ returned.value.ok
    /\ call.all_feeders = <<"B", "A">>
    /\ Qualifying = {1, 2}
    /\ CandidateScore(1) = CandidateScore(2)
    /\ returned.value.feeder_id = "B"

\* The profile of E2E scenario 1 over n samples: the customer and feeder A
\* repeat [230,231,229,230,232], feeder B repeats [210,400,150,300,100], all
\* at the same 15-minute ticks.
Scenario1(n) ==
    /\ call.fn = "_find_best_feeder_match_multi"
    /\ call.customer_df = Series(0, 15, n, <<Column(PatternA, 0)>>)
    /\ call.all_feeders = <<"A", "B">>
    /\ call.feeder_df["A"] = Series(0, 15, n, <<Column(PatternA, 0)>>)
    /\ call.feeder_df["B"] = Series(0, 15, n, <<Column(PatternB, 0)>>)

\* C10 (as stated): on the five samples of E2E scenario 1 the selector
\* chooses feeder A.
C10_FiveSamplesChooseA ==
    (Scenario1(5) /\ returned.present) =>
        (returned.value.ok /\ returned.value.feeder_id = "A")

\* C10 (amended): on the profile of E2E scenario 1 sampled at 10 ticks the
\* selector chooses feeder A, with correlation 1 and RMSE 0; on its five
\* samples alone no feeder reaches 10 aligned points and none is chosen.
C10_TenSamplesChooseA ==
    /\ (Scenario1(10) /\ returned.present) =>
          /\ returned.value.ok
          /\ returned.value.feeder_id = "A"
          /\ returned.value.correlation = 1000
          /\ returned.value.rmse = 0
          /\ returned.value.score = 1000
    /\ (Scenario1(5) /\ returned.present) => ~returned.value.ok

C10_Witness ==
    /\ Scenario1(10)
    /\ returned.present
    /\ returned.value.ok
    /\ returned.value.feeder_id = "A"
    /\ CandidateScore(2) < 0

RunDone == request.op = "correlate"

\* The customers of the run no candidate feeder of which reaches 10 aligned
\* points, and those the selector returns no match for.
WithoutCandidate ==
    { c \in DOMAIN customer_data :
        \A f \in Range(feeder_data.all_feeders) :
            Reach(customer_data[c], 1, feeder_data.frames[f], 1) < 10 }

Unmatched ==
    { c \in DOMAIN customer_data :
        ~find_best_feeder_match_multi(customer_data[c], feeder_data.frames,
                                      feeder_data.all_feeders).ok }

AssignmentsOfCustomer(c) ==
    { k \in 1..Len(analysis_results) : analysis_results[k].customer_id = c }

\* C9: after a run, a customer without a candidate of 10 aligned points has
\* no assignment, every other unmatched customer has none either, every
\* matched customer has exactly one, and the assignments number
\* total_customers less the unmatched customers.
C9_UnmatchedCustomersAreLeftOut ==
    RunDone =>
        /\ analysis_metadata.present
        /\ analysis_metadata.total_customers = Cardinality(DOMAIN customer_data)
        /\ WithoutCandidate \subseteq Unmatched
        /\ \A c \in Unmatched : AssignmentsOfCustomer(c) = {}
        /\ \A c \in (DOMAIN customer_data) \ Unmatched :
              Cardinality(AssignmentsOfCustomer(c)) = 1
        /\ \A k \in 1..Len(analysis_results) :
              analysis_results[k].customer_id \in DOMAIN customer_data
        /\ Len(analysis_results) <= analysis_metadata.total_customers
        /\ analysis_metadata.total_customers - Len(analysis_results)
              = Cardinality(Unmatched)

\* The first customer has no candidate and the run goes on to assign the
\* second.
C9_Witness ==
    /\ RunDone
    /\ Cardinality(DOMAIN customer_data) = 2
    /\ WithoutCandidate = {1}
    /\ Len(analysis_results) = 1
    /\ analysis_results[1].customer_id = 2
    /\ analysis_metadata.total_customers = 2

\* The aligned pairs of a customer column and a column of the selected feeder
\* all have the same voltage on both sides.
IdenticalAligned(ccol, fcol) ==
    LET aligned_data == align_timestamps(call.customer_df, ccol,
                                         call.feeder_df[returned.value.feeder_id], fcol)
    IN  /\ aligned_data.ok
        /\ \A k \in 1..Len(aligned_data.pairs) :
              aligned_data.pairs[k].customer_voltage = aligned_data.pairs[k].feeder_voltage

PerfectMatch(m) == m.correlation = 1000 /\ m.rmse = 0 /\ m.score = 1000

\* C11: a feeder match or a phase match whose aligned series are identical
\* has correlation 1, RMSE 0 and score 1, flat series included.
C11_IdenticalSeriesScoreOne ==
    (Selected /\ returned.value.ok) =>
        /\ IdenticalAligned(1, 1) => PerfectMatch(returned.value)
        /\ \A k \in 1..Len(returned.value.phase_matches) :
              IdenticalAligned(PhaseIndex(returned.value.phase_matches[k].customer_phase),
                               PhaseIndex(returned.value.phase_matches[k].feeder_phase))
                  => PerfectMatch(returned.value.phase_matches[k])

\* The phases of the selected feeder: one per voltage column of its rows.
FeederPhases ==
    {PhaseLabels[j] : j \in 1..Len(call.feeder_df[returned.value.feeder_id].cols)}

\* C12: a match for a customer of N voltage columns carries exactly N phase
\* assignments, the k-th for the customer's k-th phase, each to a phase of the
\* selected feeder.
C12_OneAssignmentPerCustomerPhase ==
    (Selected /\ returned.value.ok) =>
        /\ Len(returned.value.phase_assignments) = Len(call.customer_df.cols)
        /\ \A k \in 1..Len(returned.value.phase_assignments) :
              /\ returned.value.phase_assignments[k].customer_phase = PhaseNames[k]
              /\ returned.value.phase_assignments[k].assigned_feeder_phase \in FeederPhases

\* C13: a simulate request without moves applies the first five proposals of
\* the optimizer for the stored assignment set, whether or not suggestions
\* are stored in the session.
C13_DefaultMovesAreTopFive ==
    [][(request'.op = "simulate" /\ request'.moves = <<>>) =>
          LET top == Take(suggest_balancing_moves(customer_data, analysis_results)
                              .suggestions, 5)
          IN  /\ simulation'.value.moves_applied = Len(top)
              /\ simulation'.value.after = StatsOf(WithMoves(analysis_results, top))]_vars

\* The positions of the most-loaded phase's list whose customer narrows the gap
\* between the most-loaded phase (load m) and the least-loaded one (load l).
Narrowing(listed, m, l) ==
    { k \in 1..Len(listed) :
        LET c == CustomerLoad(call.customer_data[listed[k]])
        IN  0 < c /\ c < m - l }

\* The suggestions of one feeder, and the feeders the aggregation finds
\* imbalanced.
SuggestionsOf(feeder_id) ==
    { k \in 1..Len(returned.value.suggestions) :
        returned.value.suggestions[k].feeder_id = feeder_id }

ImbalancedFeeders ==
    LET feeder_structure ==
            organize_by_feeder_and_phase(call.assignments, call.customer_data)
    IN  { f \in Range(feeder_structure.order) :
            ExceedsThreshold(calculate_imbalance(
                calculate_phase_loads(feeder_structure.phases[f], call.customer_data))) }

\* C14: the optimizer returns at most five moves for a feeder, the j-th of them
\* for the j-th customer, in the listing order of the most-loaded phase, that
\* narrows the gap; and suggest_balancing_moves returns at most five
\* suggestions for each feeder, at most five times the number of imbalanced
\* feeders in all.
C14_FirstFiveInListedOrder ==
    /\ (call.fn = "_find_optimal_moves" /\ returned.present) =>
          LET most == MostLoaded(call.phase_loads)
              least == LeastLoaded(call.phase_loads)
              narrowing == Narrowing(most.customers, most.total_load_kw, least.total_load_kw)
              moves == returned.value
          IN  /\ Len(moves) <= 5
              /\ Len(moves) = IF Cardinality(narrowing) < 5 THEN Cardinality(narrowing) ELSE 5
              /\ \A j \in 1..Len(moves) :
                    \E k \in narrowing :
                        /\ Cardinality({i \in narrowing : i < k}) = j - 1
                        /\ moves[j].customer_id = most.customers[k]
    /\ (call.fn = "suggest_balancing_moves" /\ returned.present) =>
          /\ \A f \in FeederIds : Cardinality(SuggestionsOf(f)) <= 5
          /\ returned.value.total_suggestions <= 5 * Cardinality(ImbalancedFeeders)

\* More than five listed customers narrow the gap, one that does not is listed
\* before the fifth that does, and five moves were returned.
C14_Witness ==
    /\ call.fn = "_find_optimal_moves"
    /\ returned.present
    /\ Len(returned.value) = 5
    /\ LET most == MostLoaded(call.phase_loads)
           least == LeastLoaded(call.phase_loads)
           narrowing == Narrowing(most.customers, most.total_load_kw, least.total_load_kw)
       IN  /\ Cardinality(narrowing) > 5
           /\ \E k \in 1..Len(most.customers) :
                 /\ k \notin narrowing
                 /\ Cardinality({i \in narrowing : i < k}) < 4

\* The contribution the placeholder rule gives a listed customer: 5.0 kW and
\* 1.0 kVAR without a frame, with an empty frame, without the column or with a
\* column of no numeric value, the column's mean otherwise.
PlaceholderKw(df) ==
    IF df.rows = 0 \/ ~df.has_kw \/ df.kw_nan THEN 5 ELSE df.kw

PlaceholderKvar(df) ==
    IF df.rows = 0 \/ ~df.has_kvar \/ df.kvar_nan THEN 1 ELSE df.kvar

RECURSIVE PlaceholderSum(_, _, _)
PlaceholderSum(customers, k, real) ==
    IF k > Len(customers) THEN 0
    ELSE (IF real THEN PlaceholderKw(GetFrame(customer_data, customers[k]))
                  ELSE PlaceholderKvar(GetFrame(customer_data, customers[k])))
         + PlaceholderSum(customers, k + 1, real)

\* C15: in the analysis of the session every (feeder, phase) total is the sum,
\* over the customers listed on it, of the customer's mean power, with 5.0 kW
\* and 1.0 kVAR for every customer lacking the data.
C15_LackingPowerDataAddsPlaceholder ==
    balance_analysis.present =>
        \A f \in DOMAIN balance_analysis.value.feeder_analysis :
            LET phase_loads == balance_analysis.value.feeder_analysis[f].phase_loads
            IN  \A i \in 1..Len(phase_loads) :
                    /\ phase_loads[i].total_load_kw =
                          PlaceholderSum(phase_loads[i].customers, 1, TRUE)
                    /\ phase_loads[i].total_reactive_kvar =
                          PlaceholderSum(phase_loads[i].customers, 1, FALSE)

GraphReturned ==
    request.op = "graph" /\ returned.present /\ "graph_data" \in DOMAIN returned.value

NodesOfType(graph, type) == { n \in 1..Len(graph.nodes) : graph.nodes[n].type = type }

EdgesInto(graph, id) == { e \in 1..Len(graph.edges) : graph.edges[e].target = id }

AssignedFeeders == { analysis_results[k].assigned_feeder : k \in 1..Len(analysis_results) }

C17_OnlyARunChangesAssignments ==
    [][request'.op \in {"graph", "analyze", "suggest", "simulate"} =>
          analysis_results' = analysis_results]_vars

\* The phase loads the aggregation gives a feeder of the call's assignments.
PhaseLoadsOfFeeder(feeder_id) ==
    calculate_phase_loads(
        organize_by_feeder_and_phase(call.assignments, call.customer_data).phases[feeder_id],
        call.customer_data)

LoadsOf(phase_loads) == { phase_loads[i].total_load_kw : i \in 1..Len(phase_loads) }

MinOf(S) == CHOOSE x \in S : \A y \in S : x <= y

PhaseNamed(phase_loads, phase_name) ==
    phase_loads[CHOOSE i \in 1..Len(phase_loads) : phase_loads[i].phase_name = phase_name]

\* C19: every suggestion is for a feeder whose imbalance exceeds the threshold
\* and whose largest phase load M and smallest L have M - L >= 0.1 M; it moves a
\* customer listed on a phase of load M to a phase of load L, and the load c it
\* records for the customer has |(M - c) - (L + c)| < |M - L|, that is
\* 0 < c < M - L.
C19_MovesOnlyUnderAllConditions ==
    (call.fn = "suggest_balancing_moves" /\ returned.present) =>
        \A k \in 1..Len(returned.value.suggestions) :
            LET move == returned.value.suggestions[k]
                phase_loads == PhaseLoadsOfFeeder(move.feeder_id)
                M == MaxOf(LoadsOf(phase_loads))
                L == MinOf(LoadsOf(phase_loads))
                c == move.customer_load_kw
            IN  /\ RLess(Rat(15, 100), calculate_imbalance(phase_loads))
                /\ 10 * (M - L) >= M
                /\ PhaseNamed(phase_loads, move.from_phase).total_load_kw = M
                /\ PhaseNamed(phase_loads, move.to_phase).total_load_kw = L
                /\ move.customer_id \in Range(PhaseNamed(phase_loads, move.from_phase).customers)
                /\ Abs((M - c) - (L + c)) < Abs(M - L)
                /\ 0 < c /\ c < M - L

\* Feeder F1 carries 10, 10 and 40 kW, moves are suggested for it, and each
\* takes a customer off the 40 kW phase.
C19_Witness ==
    /\ call.fn = "suggest_balancing_moves"
    /\ returned.present
    /\ "F1" \in { call.assignments[i].assigned_feeder : i \in 1..Len(call.assignments) }
    /\ [i \in 1..3 |-> PhaseLoadsOfFeeder("F1")[i].total_load_kw] = <<10, 10, 40>>
    /\ SuggestionsOf("F1") # {}
    /\ \A k \in SuggestionsOf("F1") : returned.value.suggestions[k].from_phase = "Phase C"

\* The rows of the call's frames whose cell in the first voltage column is
\* numeric.
ValidRows(df) == { i \in 1..Len(df.times) : df.cols[1][i] # Missing }

\* C20: alignment pairs each valid customer point with a feeder point of least
\* absolute time difference and keeps the pair exactly when that difference is
\* at most 15 minutes: no customer point is in two pairs, the pairs are no more
\* than the valid customer points, and no pair is more than 15 minutes apart,
\* whatever the order of the rows in the two frames.
C20_NearestNeighbourJoin ==
    (call.fn = "_align_timestamps" /\ returned.present /\ returned.value.ok) =>
        LET pairs == returned.value.pairs
            customer_rows == ValidRows(call.customer_df)
            feeder_rows == ValidRows(call.feeder_df)
        IN  /\ Len(pairs) <= Cardinality(customer_rows)
            /\ \A k, l \in 1..Len(pairs) :
                  pairs[k].customer_time = pairs[l].customer_time => k = l
            /\ \A k \in 1..Len(pairs) :
                  /\ pairs[k].time_diff_minutes <= 15
                  /\ pairs[k].time_diff_minutes
                        = Abs(pairs[k].feeder_time - pairs[k].customer_time)
                  /\ \E i \in customer_rows :
                        /\ call.customer_df.times[i] = pairs[k].customer_time
                        /\ call.customer_df.cols[1][i] = pairs[k].customer_voltage
                  /\ \E j \in feeder_rows :
                        /\ call.feeder_df.times[j] = pairs[k].feeder_time
                        /\ call.feeder_df.cols[1][j] = pairs[k].feeder_voltage
                  /\ \A j \in feeder_rows :
                        pairs[k].time_diff_minutes
                            <= Abs(call.feeder_df.times[j] - pairs[k].customer_time)
            /\ \A i \in customer_rows :
                  (\E j \in feeder_rows :
                      Abs(call.feeder_df.times[j] - call.customer_df.times[i]) <= 15)
                  <=> (\E k \in 1..Len(pairs) :
                          pairs[k].customer_time = call.customer_df.times[i])

\* Both frames have their rows in descending time, two customer points are
\* paired with the same feeder point, one of them not at its time, and a valid
\* customer point is left without a pair.
C20_Witness ==
    /\ call.fn = "_align_timestamps"
    /\ returned.present
    /\ returned.value.ok
    /\ call.customer_df.times[1] > call.customer_df.times[2]
    /\ call.feeder_df.times[1] > call.feeder_df.times[2]
    /\ \E k, l \in 1..Len(returned.value.pairs) :
          /\ k # l
          /\ returned.value.pairs[k].feeder_time = returned.value.pairs[l].feeder_time
          /\ returned.value.pairs[k].time_diff_minutes > 0
    /\ Len(returned.value.pairs) < Cardinality(ValidRows(call.customer_df))

\* The feeder phases that have a match with customer phase i in the call's
\* score matrix, and the best score among them.
MatchedColumns(i) ==
    { j \in ColumnsOf(call.matrix) : call.matrix[<<i, j>>].present }

RowMaximum(i) == MaxOf({ call.matrix[<<i, j>>].value : j \in MatchedColumns(i) })

MatchedRows == { i \in RowsOf(call.matrix) : MatchedColumns(i) # {} }

\* C21: for a customer of several phases the assignments are one per customer
\* phase that has a match, in the order of the customer phases, each to the
\* first feeder phase of maximal score in that phase's row; for a customer of
\* one phase the one assignment is a phase match of maximal score.
C21_RowMaximumPerCustomerPhase ==
    (call.fn = "_determine_phase_assignments" /\ returned.present) =>
        LET assignments == returned.value
        IN  /\ Len(assignments) = Cardinality(MatchedRows)
            /\ \A k \in 1..Len(assignments) :
                  LET i == PhaseIndex(assignments[k].customer_phase)
                      j == PhaseIndex(assignments[k].assigned_feeder_phase)
                  IN  /\ i \in MatchedRows
                      /\ Cardinality({ r \in MatchedRows : r < i }) = k - 1
                      /\ j \in MatchedColumns(i)
                      /\ call.matrix[<<i, j>>].value = RowMaximum(i)
                      /\ assignments[k].score = RowMaximum(i)
                      /\ call.num_customer_phases > 1 =>
                            \A l \in MatchedColumns(i) :
                                call.matrix[<<i, l>>].value = RowMaximum(i) => j <= l

\* Three customer phases: the first and the third are assigned the same
\* feeder phase, the third by a tie that the first feeder phase wins, and the
\* second has no match and no assignment.
C21_Witness ==
    /\ call.fn = "_determine_phase_assignments"
    /\ returned.present
    /\ call.num_customer_phases = 3
    /\ MatchedRows = {1, 3}
    /\ Len(returned.value) = 2
    /\ returned.value[1].assigned_feeder_phase = "Phase B"
    /\ returned.value[2].assigned_feeder_phase = "Phase B"
    /\ returned.value[2].customer_phase = "Phase C"
    /\ MatchedColumns(3) = {2, 3}
    /\ call.matrix[<<3, 2>>] = call.matrix[<<3, 3>>]

Simulated == call.fn = "simulate_balancing" /\ returned.present

\* The positions of the moves that name the customer.
MovesFor(customer_id) ==
    { k \in 1..Len(call.balancing_moves) :
        call.balancing_moves[k].customer_id = customer_id }

\* C22: the simulated assignment set has the customers of the original one in
\* the same order, each on its feeder and with as many phase assignments for
\* the same customer phases; a customer no move names keeps its assignment,
\* and every phase assignment of a customer that moves name has the to_phase
\* of the last of them.
C22_MovesRephaseEveryEntry ==
    Simulated =>
        LET original == call.original_assignments
            new_assignments == returned.value.new_assignments
        IN  /\ Len(new_assignments) = Len(original)
            /\ \A i \in 1..Len(original) :
                  LET before == original[i]
                      after == new_assignments[i]
                      named == MovesFor(before.customer_id)
                  IN  /\ after.customer_id = before.customer_id
                      /\ after.assigned_feeder = before.assigned_feeder
                      /\ Len(after.phase_assignments) = Len(before.phase_assignments)
                      /\ named = {} => after = before
                      /\ \A k \in 1..Len(before.phase_assignments) :
                            /\ after.phase_assignments[k].customer_phase
                                  = before.phase_assignments[k].customer_phase
                            /\ named # {} =>
                                  after.phase_assignments[k].assigned_feeder_phase
                                      = call.balancing_moves[MaxOf(named)].to_phase

\* Two moves with different phases name customer 1, which has two phase
\* assignments: both end on the phase of the second move, and customer 2, which
\* no move names, keeps its assignment.
C22_Witness ==
    /\ Simulated
    /\ Len(call.balancing_moves) = 2
    /\ call.balancing_moves[1].customer_id = 1
    /\ call.balancing_moves[2].customer_id = 1
    /\ call.balancing_moves[1].to_phase # call.balancing_moves[2].to_phase
    /\ Len(call.original_assignments[1].phase_assignments) = 2
    /\ call.original_assignments[1].phase_assignments[1].assigned_feeder_phase
          # call.balancing_moves[2].to_phase
    /\ returned.value.new_assignments[1].phase_assignments[2].assigned_feeder_phase
          = call.balancing_moves[2].to_phase
    /\ returned.value.new_assignments[2] = call.original_assignments[2]

\* The sum of the three phase loads of a feeder under an assignment list and
\* the call's customer data; 0 for a feeder without assignments.
FeederLoad(assignments, feeder_id) ==
    LET feeder_structure == organize_by_feeder_and_phase(assignments, call.customer_data)
    IN  IF feeder_id \in DOMAIN feeder_structure.phases
        THEN SumLoads(calculate_phase_loads(feeder_structure.phases[feeder_id],
                                            call.customer_data), 1)
        ELSE 0

\* C29: in the simulated set every customer is on the feeder it was on and has
\* as many phase assignments as it had, every feeder carries the total load it
\* carried under the original set, and the total_load_kw reported after the
\* simulation is the one reported before and the one of the original set.
C29_MovesKeepFeederTotals ==
    Simulated =>
        LET original == call.original_assignments
            new_assignments == returned.value.new_assignments
        IN  /\ \A i \in 1..Len(original) :
                  /\ new_assignments[i].assigned_feeder = original[i].assigned_feeder
                  /\ Len(new_assignments[i].phase_assignments)
                        = Len(original[i].phase_assignments)
            /\ \A f \in FeederIds :
                  FeederLoad(new_assignments, f) = FeederLoad(original, f)
            /\ returned.value.result.after.total_load_kw
                  = FeederLoad(original, "F1") + FeederLoad(original, "F2")
            /\ returned.value.result.after.total_load_kw
                  = returned.value.result.before.total_load_kw

\* A customer of 37 kW with two phase assignments on Phase A is moved to
\* Phase B: the load of the two phases changes, the feeder's total does not.
C29_Witness ==
    /\ Simulated
    /\ call.customer_data[1].kw = 37
    /\ call.original_assignments[1].assigned_feeder = "F1"
    /\ call.original_assignments[2].assigned_feeder = "F2"
    /\ Len(call.original_assignments[1].phase_assignments) = 2
    /\ \A k \in 1..2 :
          /\ call.original_assignments[1].phase_assignments[k].assigned_feeder_phase
                = "Phase A"
          /\ returned.value.new_assignments[1].phase_assignments[k].assigned_feeder_phase
                = "Phase B"
    /\ FeederLoad(returned.value.new_assignments, "F1") = 74
    /\ returned.value.result.after.total_load_kw
          = 74 + FeederLoad(call.original_assignments, "F2")

\* C24: the imbalance ratio of three phase loads lies between 0 and 1.
C24_ImbalanceWithinUnit ==
    (call.fn = "_calculate_imbalance" /\ returned.present) =>
        /\ RLeq(RZero, returned.value)
        /\ RLeq(returned.value, [n |-> 1, d |-> 1])

\* C23: the loss reduction reported is
\* ((1 + before)^2 - (1 + after)^2) / (1 + before)^2 * 100 for every pair of
\* average imbalances before and after, also when the one after is larger.
C23_LossReductionIsTheFormula ==
    (call.fn = "_estimate_loss_reduction" /\ returned.present) =>
        LET b == RAdd(ROne, call.before.avg_imbalance)
            a == RAdd(ROne, call.after.avg_imbalance)
        IN  returned.value
              = RMul(RDiv(RSub(RMul(b, b), RMul(a, a)), RMul(b, b)), [n |-> 100, d |-> 1])

\* The phase loads with the load taken off one phase and put on another.
LoadMoved(phase_loads, from_phase, to_phase, customer_load) ==
    [i \in 1..Len(phase_loads) |->
        [phase_loads[i] EXCEPT !.total_load_kw =
            IF phase_loads[i].phase_name = from_phase THEN @ - customer_load
            ELSE IF phase_loads[i].phase_name = to_phase THEN @ + customer_load
            ELSE @]]

\* C27: the imbalance_after of every suggestion is the imbalance ratio of the
\* feeder's three phase loads with the customer's load moved from from_phase to
\* to_phase, and its imbalance_reduction, imbalance_before - imbalance_after,
\* is not negative.
C27_ImbalanceAfterIsRecomputedRatio ==
    (call.fn = "suggest_balancing_moves" /\ returned.present) =>
        \A k \in 1..Len(returned.value.suggestions) :
            LET move == returned.value.suggestions[k]
                improvement == move.expected_improvement
                phase_loads == PhaseLoadsOfFeeder(move.feeder_id)
            IN  /\ improvement.imbalance_after
                      = calculate_imbalance(LoadMoved(phase_loads, move.from_phase,
                                                      move.to_phase, move.customer_load_kw))
                /\ improvement.imbalance_reduction
                      = RSub(improvement.imbalance_before, improvement.imbalance_after)
                /\ RLeq(RZero, improvement.imbalance_reduction)

\* C28: the load a suggestion records for its customer is the load the
\* aggregation added for that customer to the phase it is moved from.
C28_OptimizerLoadIsAggregatedLoad ==
    balancing_suggestions.present =>
        \A k \in 1..Len(balancing_suggestions.value.suggestions) :
            LET move == balancing_suggestions.value.suggestions[k]
            IN  move.customer_load_kw
                  = AggregatedKw(GetFrame(customer_data_dict, move.customer_id))

\* The number of entries the i-th assignment of the session has on a phase of a
\* feeder: its phase assignments with that feeder phase, or one entry on
\* Phase A when it has no phase assignment.
EntryCount(i, feeder_id, phase) ==
    LET assignment == analysis_results[i]
    IN  IF assignment.assigned_feeder # feeder_id THEN 0
        ELSE IF Len(assignment.phase_assignments) = 0
        THEN (IF phase = "Phase A" THEN 1 ELSE 0)
        ELSE Cardinality({ k \in 1..Len(assignment.phase_assignments) :
                             assignment.phase_assignments[k].assigned_feeder_phase = phase })

\* The entries on a phase of a feeder from the i-th assignment on, each counted
\* as 1 or weighted with the mean load of its customer.
RECURSIVE EntrySum(_, _, _, _)
EntrySum(feeder_id, phase, i, weighted) ==
    IF i > Len(analysis_results) THEN 0
    ELSE EntryCount(i, feeder_id, phase)
            * (IF weighted
               THEN AggregatedKw(GetFrame(customer_data_dict, analysis_results[i].customer_id))
               ELSE 1)
         + EntrySum(feeder_id, phase, i + 1, weighted)

\* C30: the aggregation counts phase-assignment entries: every phase of a
\* feeder lists a customer once per entry the customer has on it, its
\* customer_count is the number of entries and its total_load_kw the sum of the
\* customers' mean loads over the entries; the feeder's total_load_kw and
\* total_customers are the sums over its entries; and a customer is proposed
\* for a move off a phase at most once per entry it has on that phase.
C30_AggregationCountsEntries ==
    /\ balance_analysis.present =>
          \A f \in DOMAIN balance_analysis.value.feeder_analysis :
              LET analysis == balance_analysis.value.feeder_analysis[f]
                  phase_loads == analysis.phase_loads
              IN  /\ \A p \in 1..Len(phase_loads) :
                        /\ phase_loads[p].customer_count
                              = EntrySum(f, phase_loads[p].phase_name, 1, FALSE)
                        /\ phase_loads[p].total_load_kw
                              = EntrySum(f, phase_loads[p].phase_name, 1, TRUE)
                        /\ \A i \in 1..Len(analysis_results) :
                              Occurrences(phase_loads[p].customers,
                                          analysis_results[i].customer_id)
                                = EntryCount(i, f, phase_loads[p].phase_name)
                  /\ analysis.total_load_kw
                        = EntrySum(f, "Phase A", 1, TRUE) + EntrySum(f, "Phase B", 1, TRUE)
                            + EntrySum(f, "Phase C", 1, TRUE)
                  /\ analysis.total_customers
                        = EntrySum(f, "Phase A", 1, FALSE) + EntrySum(f, "Phase B", 1, FALSE)
                            + EntrySum(f, "Phase C", 1, FALSE)
    /\ (request.op = "suggest" /\ balancing_suggestions.present) =>
          \A i \in 1..Len(analysis_results), f \in FeederIds, phase \in PhaseSet :
              Cardinality({ k \in 1..Len(balancing_suggestions.value.suggestions) :
                  LET move == balancing_suggestions.value.suggestions[k]
                  IN  /\ move.customer_id = analysis_results[i].customer_id
                      /\ move.feeder_id = f
                      /\ move.from_phase = phase })
                <= EntryCount(i, f, phase)

\* Customer 1, of 37 kW, has two phase assignments on Phase A of feeder F1:
\* the analysis lists it twice there and counts 74 kW and two customers.
C30_Witness ==
    /\ balance_analysis.present
    /\ Len(analysis_results) = 1
    /\ analysis_results[1].customer_id = 1
    /\ customer_data[1].kw = 37
    /\ EntryCount(1, "F1", "Phase A") = 2
    /\ LET analysis == balance_analysis.value.feeder_analysis["F1"]
       IN  /\ analysis.phase_loads[1].customers = <<1, 1>>
           /\ analysis.phase_loads[1].customer_count = 2
           /\ analysis.phase_loads[1].total_load_kw = 74
           /\ analysis.total_load_kw = 74
           /\ analysis.total_customers = 2
           /\ balance_analysis.value.overall_stats.total_customers = 1

\* With the same session a suggest request proposes customer 1 twice.
C30_ProposedTwice ==
    /\ request.op = "suggest"
    /\ balancing_suggestions.present
    /\ Len(analysis_results) = 1
    /\ EntryCount(1, "F1", "Phase A") = 2
    /\ Len(balancing_suggestions.value.suggestions) = 2
    /\ \A k \in 1..2 : balancing_suggestions.value.suggestions[k].customer_id = 1

\* C25: a customer with at least one candidate feeder that reaches the minimum
\* of aligned points gets a match, whatever the scores of its candidates.
C25_QualifyingCandidateGivesMatch ==
    (Selected /\ Qualifying # {}) => returned.value.ok

\* C26: when a simulate request falls back to stored suggestions and applies
\* them, they are the suggestions of the assignment set the session holds at
\* that moment.
C26_StoredSuggestionsAreCurrent ==
    [][(/\ request'.op = "simulate"
        /\ request'.moves = <<>>
        /\ balancing_suggestions.present
        /\ Len(balancing_suggestions.value.suggestions) > 0
        /\ ~organize_raises(analysis_results))
       => balancing_suggestions.value.suggestions
            = suggest_balancing_moves(customer_data_dict, analysis_results).suggestions]_vars

=============================================================================
